---- MODULE Spec2Model ----
(***************************************************************************)
(* Storage-market provider of cpp-filecoin: the provider deal FSM          *)
(* (core/markets/storage/provider/provider.cpp), its inbound deal stream   *)
(* handler and importDataForDeal.                                          *)
(*                                                                         *)
(* The generic FSM engine (fsm/fsm.hpp) is not part of the sources at hand;*)
(* its queue and dispatch are modelled from the design document: events    *)
(* are posted to a serialized queue, each handler runs to completion, an   *)
(* event with no rule for the current state is dropped, and fromAny means  *)
(* any non-terminal state.                                                 *)
(***************************************************************************)
EXTENDS Integers, Sequences, FiniteSets, TLC

\* ---------------------------------------------------------------- bounds
MaxStreams == 2      \* inbound deal streams handled
MaxQueue == 2        \* events waiting in the FSM queue when a caller posts
MaxWatches == 2      \* subscriptions made with onDealSectorCommitted
MaxMessages == 2     \* messages in the tipset of one head change
MaxDeclared == 2     \* sector files declared in the index at the start
MaxExternal == 1     \* events posted by other components (SpecAny only)

\* ---------------------------------------------------------------- states
STORAGE_DEAL_UNKNOWN == "unknown"
STORAGE_DEAL_PROPOSAL_ACCEPTED == "proposal_accepted"
STORAGE_DEAL_VALIDATING == "validating"
STORAGE_DEAL_TRANSFERRING == "transferring"
STORAGE_DEAL_WAITING_FOR_DATA == "waiting_for_data"
STORAGE_DEAL_VERIFY_DATA == "verify_data"
STORAGE_DEAL_ENSURE_PROVIDER_FUNDS == "ensure_provider_funds"
STORAGE_DEAL_PROVIDER_FUNDING == "provider_funding"
STORAGE_DEAL_PUBLISH == "publish"
STORAGE_DEAL_PUBLISHING == "publishing"
STORAGE_DEAL_STAGED == "staged"
STORAGE_DEAL_SEALING == "sealing"
STORAGE_DEAL_ACTIVE == "active"
STORAGE_DEAL_EXPIRED == "expired"
STORAGE_DEAL_COMPLETED == "completed"
STORAGE_DEAL_FAILING == "failing"
STORAGE_DEAL_ERROR == "error"
STORAGE_DEAL_SLASHED == "slashed"
STORAGE_DEAL_REJECTING == "rejecting"
STORAGE_DEAL_REJECTED == "rejected"

StorageDealStatus ==
  { STORAGE_DEAL_UNKNOWN, STORAGE_DEAL_PROPOSAL_ACCEPTED,
    STORAGE_DEAL_VALIDATING, STORAGE_DEAL_TRANSFERRING,
    STORAGE_DEAL_WAITING_FOR_DATA, STORAGE_DEAL_VERIFY_DATA,
    STORAGE_DEAL_ENSURE_PROVIDER_FUNDS, STORAGE_DEAL_PROVIDER_FUNDING,
    STORAGE_DEAL_PUBLISH, STORAGE_DEAL_PUBLISHING, STORAGE_DEAL_STAGED,
    STORAGE_DEAL_SEALING, STORAGE_DEAL_ACTIVE, STORAGE_DEAL_EXPIRED,
    STORAGE_DEAL_COMPLETED, STORAGE_DEAL_FAILING, STORAGE_DEAL_ERROR,
    STORAGE_DEAL_SLASHED, STORAGE_DEAL_REJECTING, STORAGE_DEAL_REJECTED }

Terminal ==
  { STORAGE_DEAL_COMPLETED, STORAGE_DEAL_ERROR, STORAGE_DEAL_EXPIRED,
    STORAGE_DEAL_SLASHED, STORAGE_DEAL_REJECTED }

\* fromAny(): every non-terminal state
FromAny == StorageDealStatus \ Terminal

NoState == "none"

\* ---------------------------------------------------------------- events
ProviderEventOpen == "ProviderEventOpen"
ProviderEventNodeErrored == "ProviderEventNodeErrored"
ProviderEventDealRejected == "ProviderEventDealRejected"
ProviderEventDealAccepted == "ProviderEventDealAccepted"
ProviderEventWaitingForManualData == "ProviderEventWaitingForManualData"
ProviderEventDataTransferFailed == "ProviderEventDataTransferFailed"
ProviderEventDataTransferInitiated == "ProviderEventDataTransferInitiated"
ProviderEventDataTransferCompleted == "ProviderEventDataTransferCompleted"
ProviderEventGeneratePieceCIDFailed == "ProviderEventGeneratePieceCIDFailed"
ProviderEventVerifiedData == "ProviderEventVerifiedData"
ProviderEventFundingInitiated == "ProviderEventFundingInitiated"
ProviderEventFunded == "ProviderEventFunded"
ProviderEventDealPublishInitiated == "ProviderEventDealPublishInitiated"
ProviderEventDealPublishError == "ProviderEventDealPublishError"
ProviderEventSendResponseFailed == "ProviderEventSendResponseFailed"
ProviderEventDealPublished == "ProviderEventDealPublished"
ProviderEventFileStoreErrored == "ProviderEventFileStoreErrored"
ProviderEventDealHandoffFailed == "ProviderEventDealHandoffFailed"
ProviderEventDealHandedOff == "ProviderEventDealHandedOff"
ProviderEventDealActivationFailed == "ProviderEventDealActivationFailed"
ProviderEventDealActivated == "ProviderEventDealActivated"
ProviderEventPieceStoreErrored == "ProviderEventPieceStoreErrored"
ProviderEventDealCompleted == "ProviderEventDealCompleted"
ProviderEventUnableToLocatePiece == "ProviderEventUnableToLocatePiece"
ProviderEventReadMetadataErrored == "ProviderEventReadMetadataErrored"
ProviderEventFailed == "ProviderEventFailed"

\* ProviderTransition(event).from(..).to(..)
ProviderTransition(e, f, t) == [event |-> e, from |-> f, to |-> t]

\* the table with a publish error sent back to publish for another attempt
makeFSMTransitionsRetry ==
  { ProviderTransition(ProviderEventOpen,
        {STORAGE_DEAL_UNKNOWN}, STORAGE_DEAL_VALIDATING),
    ProviderTransition(ProviderEventNodeErrored,
        FromAny, STORAGE_DEAL_FAILING),
    ProviderTransition(ProviderEventDealRejected,
        {STORAGE_DEAL_VALIDATING, STORAGE_DEAL_VERIFY_DATA},
        STORAGE_DEAL_FAILING),
    ProviderTransition(ProviderEventDealAccepted,
        {STORAGE_DEAL_VALIDATING}, STORAGE_DEAL_PROPOSAL_ACCEPTED),
    ProviderTransition(ProviderEventWaitingForManualData,
        {STORAGE_DEAL_PROPOSAL_ACCEPTED}, STORAGE_DEAL_WAITING_FOR_DATA),
    ProviderTransition(ProviderEventDataTransferFailed,
        {STORAGE_DEAL_PROPOSAL_ACCEPTED, STORAGE_DEAL_TRANSFERRING},
        STORAGE_DEAL_FAILING),
    ProviderTransition(ProviderEventDataTransferInitiated,
        {STORAGE_DEAL_PROPOSAL_ACCEPTED}, STORAGE_DEAL_TRANSFERRING),
    ProviderTransition(ProviderEventDataTransferCompleted,
        {STORAGE_DEAL_TRANSFERRING}, STORAGE_DEAL_VERIFY_DATA),
    ProviderTransition(ProviderEventGeneratePieceCIDFailed,
        {STORAGE_DEAL_VERIFY_DATA}, STORAGE_DEAL_FAILING),
    ProviderTransition(ProviderEventVerifiedData,
        {STORAGE_DEAL_VERIFY_DATA, STORAGE_DEAL_WAITING_FOR_DATA},
        STORAGE_DEAL_ENSURE_PROVIDER_FUNDS),
    ProviderTransition(ProviderEventFundingInitiated,
        {STORAGE_DEAL_ENSURE_PROVIDER_FUNDS}, STORAGE_DEAL_PROVIDER_FUNDING),
    ProviderTransition(ProviderEventFunded,
        {STORAGE_DEAL_PROVIDER_FUNDING, STORAGE_DEAL_ENSURE_PROVIDER_FUNDS},
        STORAGE_DEAL_PUBLISH),
    ProviderTransition(ProviderEventDealPublishInitiated,
        {STORAGE_DEAL_PUBLISH}, STORAGE_DEAL_PUBLISHING),
    ProviderTransition(ProviderEventDealPublishError,
        {STORAGE_DEAL_PUBLISHING}, STORAGE_DEAL_PUBLISH),
    ProviderTransition(ProviderEventSendResponseFailed,
        {STORAGE_DEAL_PUBLISHING, STORAGE_DEAL_FAILING}, STORAGE_DEAL_ERROR),
    ProviderTransition(ProviderEventDealPublished,
        {STORAGE_DEAL_PUBLISHING}, STORAGE_DEAL_STAGED),
    ProviderTransition(ProviderEventFileStoreErrored,
        {STORAGE_DEAL_STAGED, STORAGE_DEAL_SEALING, STORAGE_DEAL_ACTIVE},
        STORAGE_DEAL_FAILING),
    ProviderTransition(ProviderEventDealHandoffFailed,
        {STORAGE_DEAL_STAGED}, STORAGE_DEAL_FAILING),
    ProviderTransition(ProviderEventDealHandedOff,
        {STORAGE_DEAL_STAGED}, STORAGE_DEAL_SEALING),
    ProviderTransition(ProviderEventDealActivationFailed,
        {STORAGE_DEAL_SEALING}, STORAGE_DEAL_FAILING),
    ProviderTransition(ProviderEventDealActivated,
        {STORAGE_DEAL_SEALING}, STORAGE_DEAL_ACTIVE),
    ProviderTransition(ProviderEventPieceStoreErrored,
        {STORAGE_DEAL_ACTIVE}, STORAGE_DEAL_FAILING),
    ProviderTransition(ProviderEventDealCompleted,
        {STORAGE_DEAL_ACTIVE}, STORAGE_DEAL_COMPLETED),
    ProviderTransition(ProviderEventUnableToLocatePiece,
        {STORAGE_DEAL_ACTIVE}, STORAGE_DEAL_FAILING),
    ProviderTransition(ProviderEventReadMetadataErrored,
        {STORAGE_DEAL_ACTIVE}, STORAGE_DEAL_FAILING),
    ProviderTransition(ProviderEventFailed,
        {STORAGE_DEAL_FAILING}, STORAGE_DEAL_ERROR) }

\* the table with the file-store error also accepted from completed
makeFSMTransitionsLate ==
  { IF t.event = ProviderEventFileStoreErrored
      THEN ProviderTransition(t.event,
               t.from \cup {STORAGE_DEAL_COMPLETED}, STORAGE_DEAL_FAILING)
      ELSE IF t.event = ProviderEventDealPublishError
        THEN ProviderTransition(t.event, t.from, STORAGE_DEAL_FAILING)
        ELSE t : t \in makeFSMTransitionsRetry }

\* the table with verified data accepted in every state that is not terminal
makeFSMTransitionsReimport ==
  { IF t.event = ProviderEventVerifiedData
      THEN ProviderTransition(t.event, FromAny, t.to)
      ELSE IF t.event = ProviderEventDealPublishError
        THEN ProviderTransition(t.event, t.from, STORAGE_DEAL_FAILING)
        ELSE t : t \in makeFSMTransitionsRetry }

\* StorageProviderImpl::makeFSMTransitions
makeFSMTransitions ==
  { ProviderTransition(ProviderEventOpen,
        {STORAGE_DEAL_UNKNOWN}, STORAGE_DEAL_VALIDATING),
    ProviderTransition(ProviderEventNodeErrored,
        FromAny, STORAGE_DEAL_FAILING),
    ProviderTransition(ProviderEventDealRejected,
        {STORAGE_DEAL_VALIDATING, STORAGE_DEAL_VERIFY_DATA},
        STORAGE_DEAL_FAILING),
    ProviderTransition(ProviderEventDealAccepted,
        {STORAGE_DEAL_VALIDATING}, STORAGE_DEAL_PROPOSAL_ACCEPTED),
    ProviderTransition(ProviderEventWaitingForManualData,
        {STORAGE_DEAL_PROPOSAL_ACCEPTED}, STORAGE_DEAL_WAITING_FOR_DATA),
    ProviderTransition(ProviderEventDataTransferFailed,
        {STORAGE_DEAL_PROPOSAL_ACCEPTED, STORAGE_DEAL_TRANSFERRING},
        STORAGE_DEAL_FAILING),
    ProviderTransition(ProviderEventDataTransferInitiated,
        {STORAGE_DEAL_PROPOSAL_ACCEPTED}, STORAGE_DEAL_TRANSFERRING),
    ProviderTransition(ProviderEventDataTransferCompleted,
        {STORAGE_DEAL_TRANSFERRING}, STORAGE_DEAL_VERIFY_DATA),
    ProviderTransition(ProviderEventGeneratePieceCIDFailed,
        {STORAGE_DEAL_VERIFY_DATA}, STORAGE_DEAL_FAILING),
    ProviderTransition(ProviderEventVerifiedData,
        {STORAGE_DEAL_VERIFY_DATA, STORAGE_DEAL_WAITING_FOR_DATA},
        STORAGE_DEAL_ENSURE_PROVIDER_FUNDS),
    ProviderTransition(ProviderEventFundingInitiated,
        {STORAGE_DEAL_ENSURE_PROVIDER_FUNDS}, STORAGE_DEAL_PROVIDER_FUNDING),
    ProviderTransition(ProviderEventFunded,
        {STORAGE_DEAL_PROVIDER_FUNDING, STORAGE_DEAL_ENSURE_PROVIDER_FUNDS},
        STORAGE_DEAL_PUBLISH),
    ProviderTransition(ProviderEventDealPublishInitiated,
        {STORAGE_DEAL_PUBLISH}, STORAGE_DEAL_PUBLISHING),
    ProviderTransition(ProviderEventDealPublishError,
        {STORAGE_DEAL_PUBLISHING}, STORAGE_DEAL_FAILING),
    ProviderTransition(ProviderEventSendResponseFailed,
        {STORAGE_DEAL_PUBLISHING, STORAGE_DEAL_FAILING}, STORAGE_DEAL_ERROR),
    ProviderTransition(ProviderEventDealPublished,
        {STORAGE_DEAL_PUBLISHING}, STORAGE_DEAL_STAGED),
    ProviderTransition(ProviderEventFileStoreErrored,
        {STORAGE_DEAL_STAGED, STORAGE_DEAL_SEALING, STORAGE_DEAL_ACTIVE},
        STORAGE_DEAL_FAILING),
    ProviderTransition(ProviderEventDealHandoffFailed,
        {STORAGE_DEAL_STAGED}, STORAGE_DEAL_FAILING),
    ProviderTransition(ProviderEventDealHandedOff,
        {STORAGE_DEAL_STAGED}, STORAGE_DEAL_SEALING),
    ProviderTransition(ProviderEventDealActivationFailed,
        {STORAGE_DEAL_SEALING}, STORAGE_DEAL_FAILING),
    ProviderTransition(ProviderEventDealActivated,
        {STORAGE_DEAL_SEALING}, STORAGE_DEAL_ACTIVE),
    ProviderTransition(ProviderEventPieceStoreErrored,
        {STORAGE_DEAL_ACTIVE}, STORAGE_DEAL_FAILING),
    ProviderTransition(ProviderEventDealCompleted,
        {STORAGE_DEAL_ACTIVE}, STORAGE_DEAL_COMPLETED),
    ProviderTransition(ProviderEventUnableToLocatePiece,
        {STORAGE_DEAL_ACTIVE}, STORAGE_DEAL_FAILING),
    ProviderTransition(ProviderEventReadMetadataErrored,
        {STORAGE_DEAL_ACTIVE}, STORAGE_DEAL_FAILING),
    ProviderTransition(ProviderEventFailed,
        {STORAGE_DEAL_FAILING}, STORAGE_DEAL_ERROR) }

ProviderEvent == { t.event : t \in makeFSMTransitions }

\* the state the FSM moves to on event e in state s, NoState without a rule
dispatch(e, s) ==
  IF \E t \in makeFSMTransitions : t.event = e /\ s \in t.from
    THEN (CHOOSE t \in makeFSMTransitions : t.event = e /\ s \in t.from).to
    ELSE NoState


\* ------------------------------------------------------- proposals, data
kTransferTypeManual == "manual"
kTransferTypeGraphsync == "graphsync"

NoCid == "none"

\* the miner actor address the provider is constructed with
actor_address == "t01000"

\* Proposal messages a client can send on a deal stream (deal_proposal,
\* piece); the third names another miner as its provider
Proposals ==
  { [cid |-> "c1", provider |-> actor_address, piece_cid |-> "p1",
     transfer_type |-> kTransferTypeManual],
    [cid |-> "c2", provider |-> actor_address, piece_cid |-> "p2",
     transfer_type |-> kTransferTypeGraphsync],
    [cid |-> "c3", provider |-> "t02000", piece_cid |-> "p3",
     transfer_type |-> kTransferTypeGraphsync] }

\* getProposalCid(proposal.deal_proposal)
getProposalCid(p) == p.cid

ProposalCids == { getProposalCid(p) : p \in Proposals }

\* buffers handed to importDataForDeal
Buffers == { "d1", "d2", "d3" }

PieceIOError == "PIECE_IO_ERROR"

\* piece_io_->generatePieceCommitment(registered_proof_, data): the piece CID
\* of the buffer, or an error for a buffer that cannot be committed
generatePieceCommitment(data) ==
  CASE data = "d1" -> "p1"
    [] data = "d2" -> "p2"
    [] OTHER -> PieceIOError

\* outcomes of ensureFunds(deal): an error of one of the three chain calls,
\* no message needed, or the CID of the funding message
EnsureFundsError == "error"
FundsCids == { "f1" }
EnsureFundsResults == { EnsureFundsError, NoCid } \cup FundsCids

\* return values of importDataForDeal
Success == "success"
LOCAL_DEAL_NOT_FOUND == "LOCAL_DEAL_NOT_FOUND"
PIECE_CID_DOESNT_MATCH == "PIECE_CID_DOESNT_MATCH"

\* ------------------------------------------------------------- the state
VARIABLES
  deals,            \* the MinerDeal objects created so far (a heap, by index)
  local_deals_,     \* proposal cid -> index of its MinerDeal, 0 if absent
  connections_,     \* proposal cid -> deal stream, 0 if absent
  streams,          \* number of deal streams opened so far
  closed,           \* streams closed by the provider
  fsm_queue,        \* events posted to the FSM and not yet dispatched
  history,          \* per deal: the states the FSM has put it in, in order
  last,             \* the last event the FSM took from its queue
  mismatched,       \* deals that were in waiting_for_data when
                    \* importDataForDeal returned PIECE_CID_DOESNT_MATCH
  imported,         \* deals for which importDataForDeal posted VerifiedData
  funds_failed,     \* deals for which ensureFunds returned an error
  external,         \* number of events posted by other components
  watcher,          \* the chain-event watcher: "idle", "running", "stopped"
  watches,          \* the EventWatch entries of the subscriptions not yet
                    \* resolved, in the order they were registered
  futures,          \* the PromiseResult of every subscription made so far
  due,              \* futures of the watches for whose provider a
                    \* ProveCommitSector was applied for the sector the last
                    \* PreCommitSector naming their deal had recorded
  revoked,          \* futures of the watches whose recorded sector was
                    \* reverted, with no PreCommitSector naming their deal
                    \* applied since
  paths_,           \* local store: storage id -> path of its root, NoPath
                    \* if the storage is not registered
  index_,           \* the sector index: the storages attached and the
                    \* (storage, sector, type) files declared
  response,         \* the last call of the local store: its arguments and
                    \* what it returned (for acquireSector, with the index
                    \* calls it made and their answers)
  disk,             \* the entries of the storages' type directories:
                    \* (storage, type, file name)
  mutex_,           \* the store's reader-writer lock: its exclusive owner and
                    \* its shared owners
  threads           \* per thread: the call it is in and how far it has got

providerVars ==
  << deals, local_deals_, connections_, streams, closed, fsm_queue, history,
     last, mismatched, imported, funds_failed, external >>

watcherVars == << watcher, watches, futures, due, revoked >>

storeVars == << paths_, index_, response, disk, mutex_, threads >>

vars == << providerVars, watcherVars, storeVars >>

Deals == 1 .. Len(deals)

\* MinerDeal{...} as constructed in handleDealStream
MinerDeal(proposal, proposal_cid) ==
  [ proposal_cid |-> proposal_cid,
    provider |-> proposal.provider,
    piece_cid |-> proposal.piece_cid,
    ref |-> proposal.transfer_type,
    add_funds_cid |-> NoCid,
    state |-> STORAGE_DEAL_UNKNOWN,
    connection_closed |-> FALSE,
    message |-> "",
    deal_id |-> 0 ]

NoEvent == [deal |-> 0, event |-> "none", from |-> NoState, to |-> NoState]

InitProvider ==
  /\ deals = << >>
  /\ local_deals_ = [c \in ProposalCids |-> 0]
  /\ connections_ = [c \in ProposalCids |-> 0]
  /\ streams = 0
  /\ closed = {}
  /\ fsm_queue = << >>
  /\ history = << >>
  /\ last = NoEvent
  /\ mismatched = {}
  /\ imported = {}
  /\ funds_failed = {}
  /\ external = 0

\* the watcher after construction
InitEvents ==
  /\ watcher = "idle"
  /\ watches = << >>
  /\ futures = << >>
  /\ due = {}
  /\ revoked = {}

\* the storages known to the sector index
StorageIDs == { "s1", "s2", "s3" }

\* paths_.find(id) == paths_.end()
NoPath == "none"

\* no acquireSector call made yet
NoResponse == [op |-> "none"]

\* the threads that call the local store
Threads == { "t1", "t2" }

NoThread == "none"

\* std::shared_mutex mutex_, not owned
Unlocked == [exclusive |-> NoThread, shared |-> {}]

\* a thread outside every call of the store
Idle == [op |-> "none", pc |-> "idle"]

\* the local store after construction, before any path is opened
InitStore ==
  /\ paths_ = [id \in StorageIDs |-> NoPath]
  /\ index_ = [storages |-> {}, sectors |-> {}]
  /\ response = NoResponse
  /\ disk = {}
  /\ mutex_ = Unlocked
  /\ threads = [t \in Threads |-> Idle]

Init == InitProvider /\ InitEvents /\ InitStore

\* fsm_->send(deal, event): the event joins the queue
send(queue, d, e) == Append(queue, [deal |-> d, event |-> e])

\* events of deal d waiting in the queue
Pending(d) == { i \in 1 .. Len(fsm_queue) : fsm_queue[i].deal = d }


\* --------------------------------------------------- the action callbacks
\* Each callback yields the deal as it leaves it and the events it posts
\* with fsm_->send, in order.
Result(deal, events) == [deal |-> deal, send |-> events]

onProviderEventFundingInitiated(deal) ==
  Result(deal, << ProviderEventFunded >>)

onProviderEventFunded(deal) ==
  Result(deal, << ProviderEventDealPublishInitiated >>)

onProviderEventDealPublishInitiated(deal) ==
  Result(deal, << ProviderEventDealPublished >>)

onProviderEventDealPublished(deal) ==
  Result(deal, << ProviderEventDealHandedOff >>)

onProviderEventDealHandedOff(deal) ==
  Result(deal, << ProviderEventDealActivated >>)

onProviderEventDealActivated(deal) ==
  Result(deal, << ProviderEventDealCompleted >>)

\* the callback that does not wait for importDataForDeal
onProviderEventWaitingForManualDataEager(deal) ==
  Result(deal, << ProviderEventVerifiedData >>)

\* wait for importDataForDeal() call
onProviderEventWaitingForManualData(deal) ==
  Result(deal, << >>)

onProviderEventOpen(deal) ==
  Result(deal, << ProviderEventDealAccepted >>)

onProviderEventDealAccepted(deal) ==
  IF deal.ref = kTransferTypeManual
    THEN Result(deal, << ProviderEventWaitingForManualData >>)
    ELSE Result(deal, << >>)

\* the callback that does not look at the error of ensureFunds
onProviderEventVerifiedDataUnchecked(deal, maybe_cid) ==
  IF maybe_cid \notin { EnsureFundsError, NoCid }
    THEN Result([deal EXCEPT !.add_funds_cid = maybe_cid],
                << ProviderEventFundingInitiated >>)
    ELSE Result(deal, << ProviderEventFundingInitiated >>)

\* maybe_cid is the outcome of ensureFunds(deal)
onProviderEventVerifiedData(deal, maybe_cid) ==
  IF maybe_cid = EnsureFundsError
    THEN Result(deal, << ProviderEventNodeErrored >>)
    ELSE IF maybe_cid # NoCid
      THEN Result([deal EXCEPT !.add_funds_cid = maybe_cid],
                  << ProviderEventFundingInitiated >>)
      ELSE Result(deal, << ProviderEventFundingInitiated >>)

onProviderEventNodeErrored(deal) ==
  Result(deal, << >>)

onProviderEventDealRejected(deal) ==
  Result(deal, << >>)

onProviderEventDataTransferFailed(deal) ==
  Result(deal, << >>)

onProviderEventDataTransferInitiated(deal) ==
  Result(deal, << >>)

onProviderEventDataTransferCompleted(deal) ==
  Result(deal, << >>)

onProviderEventGeneratePieceCIDFailed(deal) ==
  Result(deal, << >>)

onProviderEventSendResponseFailed(deal) ==
  Result(deal, << >>)

onProviderEventDealPublishError(deal) ==
  Result(deal, << >>)

onProviderEventFileStoreErrored(deal) ==
  Result(deal, << >>)

onProviderEventDealHandoffFailed(deal) ==
  Result(deal, << >>)

onProviderEventDealActivationFailed(deal) ==
  Result(deal, << >>)

onProviderEventUnableToLocatePiece(deal) ==
  Result(deal, << >>)

onProviderEventPieceStoreErrored(deal) ==
  Result(deal, << >>)

onProviderEventReadMetadataErrored(deal) ==
  Result(deal, << >>)

onProviderEventDealCompleted(deal) ==
  Result(deal, << >>)

onProviderEventFailed(deal) ==
  Result(deal, << >>)

\* the callback bound to event e by CALLBACK_ACTION in the transition table
action(e, deal, maybe_cid) ==
  CASE e = ProviderEventVerifiedData ->
         onProviderEventVerifiedData(deal, maybe_cid)
    [] e = ProviderEventOpen ->
         onProviderEventOpen(deal)
    [] e = ProviderEventDealAccepted ->
         onProviderEventDealAccepted(deal)
    [] e = ProviderEventWaitingForManualData ->
         onProviderEventWaitingForManualData(deal)
    [] e = ProviderEventFundingInitiated ->
         onProviderEventFundingInitiated(deal)
    [] e = ProviderEventFunded ->
         onProviderEventFunded(deal)
    [] e = ProviderEventDealPublishInitiated ->
         onProviderEventDealPublishInitiated(deal)
    [] e = ProviderEventDealPublished ->
         onProviderEventDealPublished(deal)
    [] e = ProviderEventDealHandedOff ->
         onProviderEventDealHandedOff(deal)
    [] e = ProviderEventDealActivated ->
         onProviderEventDealActivated(deal)
    [] e = ProviderEventNodeErrored ->
         onProviderEventNodeErrored(deal)
    [] e = ProviderEventDealRejected ->
         onProviderEventDealRejected(deal)
    [] e = ProviderEventDataTransferFailed ->
         onProviderEventDataTransferFailed(deal)
    [] e = ProviderEventDataTransferInitiated ->
         onProviderEventDataTransferInitiated(deal)
    [] e = ProviderEventDataTransferCompleted ->
         onProviderEventDataTransferCompleted(deal)
    [] e = ProviderEventGeneratePieceCIDFailed ->
         onProviderEventGeneratePieceCIDFailed(deal)
    [] e = ProviderEventSendResponseFailed ->
         onProviderEventSendResponseFailed(deal)
    [] e = ProviderEventDealPublishError ->
         onProviderEventDealPublishError(deal)
    [] e = ProviderEventFileStoreErrored ->
         onProviderEventFileStoreErrored(deal)
    [] e = ProviderEventDealHandoffFailed ->
         onProviderEventDealHandoffFailed(deal)
    [] e = ProviderEventDealActivationFailed ->
         onProviderEventDealActivationFailed(deal)
    [] e = ProviderEventUnableToLocatePiece ->
         onProviderEventUnableToLocatePiece(deal)
    [] e = ProviderEventPieceStoreErrored ->
         onProviderEventPieceStoreErrored(deal)
    [] e = ProviderEventReadMetadataErrored ->
         onProviderEventReadMetadataErrored(deal)
    [] e = ProviderEventDealCompleted ->
         onProviderEventDealCompleted(deal)
    [] e = ProviderEventFailed ->
         onProviderEventFailed(deal)


\* ------------------------------------------------------------ operations
\* what the read of the Proposal and the lookups of handleDealStream yield
StreamOk == "ok"
StreamOutcomes ==
  { StreamOk, "read_error", "proposal_cid_error", "peer_info_error" }

\* the handler that goes on to register the deal after closing a stream it
\* could not read
handleDealStreamRegistering(p, outcome) ==
  /\ streams < MaxStreams
  /\ streams' = streams + 1
  /\ closed' = IF outcome # StreamOk THEN closed \cup { streams + 1 } ELSE closed
  /\ LET proposal_cid == getProposalCid(p)
         deal == Len(deals) + 1
     IN /\ deals' = Append(deals, MinerDeal(p, proposal_cid))
        /\ local_deals_' = [local_deals_ EXCEPT ![proposal_cid] = deal]
        /\ connections_' =
             [connections_ EXCEPT ![proposal_cid] = streams + 1]
        /\ history' = Append(history, << STORAGE_DEAL_UNKNOWN >>)
        /\ fsm_queue' = send(fsm_queue, deal, ProviderEventOpen)
  /\ UNCHANGED << last, mismatched, imported, funds_failed, external,
                  watcherVars, storeVars >>

\* StorageProviderImpl::handleDealStream, for a new stream carrying proposal
\* p: on any error the stream is closed; otherwise the MinerDeal is created
\* and registered, the FSM begins to track it and ProviderEventOpen is posted
handleDealStream(p, outcome) ==
  /\ streams < MaxStreams
  /\ streams' = streams + 1
  /\ IF outcome # StreamOk
       THEN /\ closed' = closed \cup { streams + 1 }
            /\ UNCHANGED << deals, local_deals_, connections_, fsm_queue,
                            history >>
       ELSE LET proposal_cid == getProposalCid(p)
                deal == Len(deals) + 1
            IN /\ deals' = Append(deals, MinerDeal(p, proposal_cid))
               /\ local_deals_' =
                    [local_deals_ EXCEPT ![proposal_cid] = deal]
               /\ connections_' =
                    [connections_ EXCEPT ![proposal_cid] = streams + 1]
               /\ history' = Append(history, << STORAGE_DEAL_UNKNOWN >>)
               /\ fsm_queue' = send(fsm_queue, deal, ProviderEventOpen)
               /\ closed' = closed
  /\ UNCHANGED << last, mismatched, imported, funds_failed, external,
                  watcherVars, storeVars >>

\* a lookup that leaves out the deals that have finished
getDealLive(proposal_cid) ==
  IF \/ local_deals_[proposal_cid] = 0
     \/ deals[local_deals_[proposal_cid]].state \in Terminal
    THEN [error |-> LOCAL_DEAL_NOT_FOUND, value |-> 0]
    ELSE [error |-> Success, value |-> local_deals_[proposal_cid]]

\* StorageProviderImpl::getDeal: the record registered for the proposal CID,
\* or the error
getDeal(proposal_cid) ==
  IF local_deals_[proposal_cid] = 0
    THEN [error |-> LOCAL_DEAL_NOT_FOUND, value |-> 0]
    ELSE [error |-> Success, value |-> local_deals_[proposal_cid]]

\* what StorageProviderImpl::importDataForDeal returns
importDataForDealResult(proposal_cid, data) ==
  LET piece_commitment == generatePieceCommitment(data)
      deal == local_deals_[proposal_cid]
  IN IF piece_commitment = PieceIOError THEN PieceIOError
     ELSE IF deal = 0 THEN LOCAL_DEAL_NOT_FOUND
     ELSE IF piece_commitment # deals[deal].piece_cid
       THEN PIECE_CID_DOESNT_MATCH
     ELSE Success

\* StorageProviderImpl::importDataForDeal: only a call that returns success
\* posts ProviderEventVerifiedData
importDataForDeal(proposal_cid, data) ==
  LET deal == local_deals_[proposal_cid]
      ret == importDataForDealResult(proposal_cid, data)
  IN /\ ret = Success => Len(fsm_queue) < MaxQueue
     /\ mismatched' =
          IF /\ ret = PIECE_CID_DOESNT_MATCH
             /\ deals[deal].state = STORAGE_DEAL_WAITING_FOR_DATA
            THEN mismatched \cup { deal }
            ELSE mismatched
     /\ IF ret = Success
          THEN /\ fsm_queue' = send(fsm_queue, deal, ProviderEventVerifiedData)
               /\ imported' = imported \cup { deal }
          ELSE UNCHANGED << fsm_queue, imported >>
     /\ UNCHANGED << deals, local_deals_, connections_, streams, closed,
                     history, last, funds_failed, external, watcherVars,
                     storeVars >>

\* the event loop that matches the event an action posts at once, before
\* the deal's state is set
ProcessEventNested ==
  /\ fsm_queue # << >>
  /\ LET deal == Head(fsm_queue).deal
         event == Head(fsm_queue).event
         from == deals[deal].state
         to == dispatch(event, from)
     IN IF to = NoState
          THEN /\ fsm_queue' = Tail(fsm_queue)
               /\ last' = [deal |-> deal, event |-> event, from |-> from,
                           to |-> to]
               /\ UNCHANGED << deals, history, funds_failed >>
          ELSE \E maybe_cid \in EnsureFundsResults :
                 LET res == action(event, deals[deal], maybe_cid)
                 IN /\ deals' = [deals EXCEPT
                                   ![deal] = [res.deal EXCEPT !.state = to]]
                    /\ fsm_queue' = Tail(fsm_queue)
                    /\ history' = [history EXCEPT
                                     ![deal] = Append(history[deal], to)]
                    /\ funds_failed' = funds_failed
                    /\ last' =
                         IF res.send = << >>
                           THEN [deal |-> deal, event |-> event,
                                 from |-> from, to |-> to]
                           ELSE [deal |-> deal, event |-> res.send[1],
                                 from |-> from,
                                 to |-> dispatch(res.send[1], from)]
  /\ UNCHANGED << local_deals_, connections_, streams, closed, mismatched,
                  imported, external, watcherVars, storeVars >>

\* One step of the FSM: the oldest queued event is matched against the
\* current state of its deal; without a rule it is dropped; otherwise the
\* CALLBACK_ACTION runs: the callback, then deal->state = to.
ProcessEvent ==
  /\ fsm_queue # << >>
  /\ LET deal == Head(fsm_queue).deal
         event == Head(fsm_queue).event
         from == deals[deal].state
         to == dispatch(event, from)
     IN /\ last' = [deal |-> deal, event |-> event, from |-> from, to |-> to]
        /\ IF to = NoState
             THEN /\ fsm_queue' = Tail(fsm_queue)
                  /\ UNCHANGED << deals, history, funds_failed >>
             ELSE \E maybe_cid \in EnsureFundsResults :
                    LET res == action(event, deals[deal], maybe_cid)
                        posted == [i \in 1 .. Len(res.send) |->
                                     [deal |-> deal, event |-> res.send[i]]]
                    IN /\ deals' = [deals EXCEPT
                                      ![deal] = [res.deal EXCEPT !.state = to]]
                       /\ fsm_queue' = Tail(fsm_queue) \o posted
                       /\ history' = [history EXCEPT
                                        ![deal] = Append(history[deal], to)]
                       /\ funds_failed' =
                            IF /\ event = ProviderEventVerifiedData
                               /\ maybe_cid = EnsureFundsError
                              THEN funds_failed \cup { deal }
                              ELSE funds_failed
  /\ UNCHANGED << local_deals_, connections_, streams, closed, mismatched,
                  imported, external, watcherVars, storeVars >>

\* another component (data transfer, sealing, piece store, the network)
\* posts an event for a deal
ExternalSend(deal, event) ==
  /\ external < MaxExternal
  /\ Len(fsm_queue) < MaxQueue
  /\ external' = external + 1
  /\ fsm_queue' = send(fsm_queue, deal, event)
  /\ UNCHANGED << deals, local_deals_, connections_, streams, closed,
                  history, last, mismatched, imported, funds_failed,
                  watcherVars, storeVars >>

HandleDealStream ==
  \E p \in Proposals, outcome \in StreamOutcomes : handleDealStream(p, outcome)

ImportDataForDeal ==
  \E c \in ProposalCids, data \in Buffers : importDataForDeal(c, data)

External ==
  \E deal \in Deals, event \in ProviderEvent : ExternalSend(deal, event)

\* importDataForDeal called with the right data for a deal that waits for it
ImportAwaited ==
  \E c \in ProposalCids, data \in Buffers :
    /\ local_deals_[c] # 0
    /\ deals[local_deals_[c]].state = STORAGE_DEAL_WAITING_FOR_DATA
    /\ importDataForDealResult(c, data) = Success
    /\ importDataForDeal(c, data)

Next == HandleDealStream \/ ImportDataForDeal \/ ProcessEvent

\* the first deal stream
FirstDealStream == streams = 0 /\ HandleDealStream

NextAny == FirstDealStream \/ ImportDataForDeal \/ ProcessEvent \/ External

\* another component reports a node error for a deal
NodeError ==
  \E deal \in Deals : ExternalSend(deal, ProviderEventNodeErrored)

NextNodeErrored ==
  FirstDealStream \/ ImportDataForDeal \/ ProcessEvent \/ NodeError

\* the provider on its own: streams, imports and the FSM's own events
Spec == Init /\ [][Next]_vars

\* The provider serving one deal stream, with events posted by other
\* components in any order. One deal is followed because the deals do not
\* interact: a callback reads and writes only the deal it is called with, and
\* the transition table is the same for every deal.
SpecAny == Init /\ [][NextAny]_vars

\* the provider serving one deal stream, with node errors reported by other
\* components at any moment
SpecNodeErrored == Init /\ [][NextNodeErrored]_vars

\* queued events are eventually dispatched and awaited data is eventually
\* imported
FairSpec == Spec /\ WF_vars(ProcessEvent) /\ SF_vars(ImportAwaited)


\* ------------------------------------------------ the chain-event watcher
\* Events (events.hpp) is an interface; the watcher behind it follows the
\* algorithm of the chain-event watcher section of the specification.
Addresses == { actor_address, "t02000" }
DealIds == { 1, 2 }
SectorNumbers == { 13, 14 }
NoSector == 0

PreCommitSector == "PreCommitSector"
ProveCommitSector == "ProveCommitSector"

\* a PreCommitSector message: to, SectorPreCommitInfo{sector, deal_ids}
PreCommit(to, sector, deal_ids) ==
  [to |-> to, method |-> PreCommitSector, sector |-> sector,
   deal_ids |-> deal_ids]

\* a ProveCommitSector message: to, Params{sector}
ProveCommit(to, sector) ==
  [to |-> to, method |-> ProveCommitSector, sector |-> sector,
   deal_ids |-> {}]

\* the messages tipsets are made of
Messages ==
  { PreCommit(actor_address, 13, { 1, 2 }),
    PreCommit(actor_address, 14, { 2 }),
    PreCommit("t02000", 13, { 1 }),
    ProveCommit(actor_address, 13),
    ProveCommit(actor_address, 14),
    ProveCommit("t02000", 13) }

\* the message lists (bls_messages, secp_messages) of the blocks of a tipset
Tipsets == UNION { [1 .. n -> Messages] : n \in 0 .. MaxMessages }

\* what a future yields: nothing yet, success, or an error
FuturePending == "pending"
FutureSuccess == "success"
FutureError == "error"

\* Events::EventWatch, with result the index of its promise in futures
EventWatch(provider, deal_id, result) ==
  [provider |-> provider, deal_id |-> deal_id, sector_number |-> NoSector,
   result |-> result]

\* a new PromiseResult, made for (provider, deal_id)
PromiseResult(provider, deal_id) ==
  [provider |-> provider, deal_id |-> deal_id, result |-> FuturePending,
   set |-> 0]

\* promise.set_value: the first value set is the one the future yields
set_value(promise, value) ==
  [promise EXCEPT !.result = IF promise.set = 0 THEN value ELSE @,
                  !.set = @ + 1]

\* pending_precommit: the (provider, deal_id) with a future to resolve
pending_precommit ==
  { << watches[i].provider, watches[i].deal_id >> : i \in DOMAIN watches }

\* precommitted: (provider, deal_id) -> sector_number, as a set of pairs
precommitted ==
  { << << watches[i].provider, watches[i].deal_id >>,
       watches[i].sector_number >> :
      i \in { j \in DOMAIN watches : watches[j].sector_number # NoSector } }

\* the (provider, deal_id) whose future the watcher resolved with success
watch_resolved ==
  { << futures[i].provider, futures[i].deal_id >> :
      i \in { j \in DOMAIN futures : futures[j].result = FutureSuccess } }

\* Events::onDealSectorCommitted: a new watch and its promise
onDealSectorCommitted(provider, deal_id) ==
  /\ watcher # "stopped"
  /\ Len(futures) < MaxWatches
  /\ futures' = Append(futures, PromiseResult(provider, deal_id))
  /\ watches' =
       Append(watches, EventWatch(provider, deal_id, Len(futures) + 1))
  /\ UNCHANGED << watcher, due, revoked, providerVars, storeVars >>

\* Events::run: the head-change subscription starts
run ==
  /\ watcher = "idle"
  /\ watcher' = "running"
  /\ UNCHANGED << watches, futures, due, revoked, providerVars, storeVars >>

Watcher(w, f) == [watches |-> w, futures |-> f]

\* the handler that looks at the first deal of deal_ids only
onPreCommitSectorFirst(st, m) ==
  Watcher([i \in DOMAIN st.watches |->
             IF /\ st.watches[i].provider = m.to
                /\ st.watches[i].deal_id \in m.deal_ids
                /\ \A d \in m.deal_ids : st.watches[i].deal_id <= d
               THEN [st.watches[i] EXCEPT !.sector_number = m.sector]
               ELSE st.watches[i]],
          st.futures)

\* an applied PreCommitSector: the sector is recorded for every watch of the
\* provider whose deal is among the deal_ids
onPreCommitSector(st, m) ==
  Watcher([i \in DOMAIN st.watches |->
             IF /\ st.watches[i].provider = m.to
                /\ st.watches[i].deal_id \in m.deal_ids
               THEN [st.watches[i] EXCEPT !.sector_number = m.sector]
               ELSE st.watches[i]],
          st.futures)

\* the handler that does not compare the sector
onProveCommitSectorAny(st, m) ==
  LET hit(w) == w.provider = m.to
      done == { st.watches[i].result :
                  i \in { j \in DOMAIN st.watches : hit(st.watches[j]) } }
  IN Watcher(SelectSeq(st.watches, LAMBDA w : ~hit(w)),
             [i \in DOMAIN st.futures |->
                IF i \in done
                  THEN set_value(st.futures[i], FutureSuccess)
                  ELSE st.futures[i]])

\* an applied ProveCommitSector: every watch of the provider with that sector
\* recorded has its future resolved with success and is dropped
onProveCommitSector(st, m) ==
  LET hit(w) == w.provider = m.to /\ w.sector_number = m.sector
      done == { st.watches[i].result :
                  i \in { j \in DOMAIN st.watches : hit(st.watches[j]) } }
  IN Watcher(SelectSeq(st.watches, LAMBDA w : ~hit(w)),
             [i \in DOMAIN st.futures |->
                IF i \in done
                  THEN set_value(st.futures[i], FutureSuccess)
                  ELSE st.futures[i]])

\* one message of an applied tipset
onMessage(st, m) ==
  IF m.method = PreCommitSector
    THEN onPreCommitSector(st, m)
    ELSE onProveCommitSector(st, m)

\* the messages of an applied tipset, from the i-th on, in their order
RECURSIVE onApply(_, _, _)
onApply(st, tipset, i) ==
  IF i > Len(tipset)
    THEN st
    ELSE onApply(onMessage(st, tipset[i]), tipset, i + 1)

\* the watcher that takes no notice of a REVERT
onRevertIgnored(st, tipset) == st

\* a reverted tipset: the sectors its PreCommitSector messages recorded are
\* removed; futures are left as they are
onRevert(st, tipset) ==
  LET undone(w) ==
        \E i \in DOMAIN tipset :
          /\ tipset[i].method = PreCommitSector
          /\ tipset[i].to = w.provider
          /\ w.deal_id \in tipset[i].deal_ids
          /\ tipset[i].sector = w.sector_number
  IN Watcher([i \in DOMAIN st.watches |->
                IF undone(st.watches[i])
                  THEN [st.watches[i] EXCEPT !.sector_number = NoSector]
                  ELSE st.watches[i]],
             st.futures)

APPLY == "apply"
REVERT == "revert"

\* message m is a PreCommitSector to the provider of watch w naming its deal
Names(m, w) ==
  /\ m.method = PreCommitSector
  /\ m.to = w.provider
  /\ w.deal_id \in m.deal_ids

\* the tipset has a PreCommitSector naming the deal of watch w
Named(w, tipset) == \E i \in DOMAIN tipset : Names(tipset[i], w)

\* the sector recorded for watch w when the j-th message of the tipset is
\* reached: that of the last PreCommitSector before it naming the deal, or
\* else the one recorded when the tipset arrives
SectorBefore(w, tipset, j) ==
  LET before == { i \in 1 .. j - 1 : Names(tipset[i], w) }
  IN IF before = {}
       THEN w.sector_number
       ELSE tipset[CHOOSE i \in before : \A k \in before : k <= i].sector

\* the tipset has a ProveCommitSector to the provider of watch w for the
\* sector recorded for w at that point
Proved(w, tipset) ==
  \E j \in DOMAIN tipset :
    /\ tipset[j].method = ProveCommitSector
    /\ tipset[j].to = w.provider
    /\ tipset[j].sector = SectorBefore(w, tipset, j)

\* the tipset has the PreCommitSector that recorded the sector of watch w
Unrecorded(w, tipset) ==
  /\ w.sector_number # NoSector
  /\ \E i \in DOMAIN tipset :
       Names(tipset[i], w) /\ tipset[i].sector = w.sector_number

\* the watcher reads HeadChange{type, tipset} from the ChainNotify channel
onHeadChange(type, tipset) ==
  /\ watcher = "running"
  /\ LET st == IF type = APPLY
                 THEN onApply(Watcher(watches, futures), tipset, 1)
                 ELSE onRevert(Watcher(watches, futures), tipset)
     IN /\ watches' = st.watches
        /\ futures' = st.futures
        /\ due' =
             IF type = APPLY
               THEN due \cup { watches[i].result :
                                 i \in { j \in DOMAIN watches :
                                           Proved(watches[j], tipset) } }
               ELSE due
        /\ revoked' =
             IF type = APPLY
               THEN revoked \ { watches[i].result :
                                  i \in { j \in DOMAIN watches :
                                            Named(watches[j], tipset) } }
               ELSE revoked \cup
                      { watches[i].result :
                          i \in { j \in DOMAIN watches :
                                    Unrecorded(watches[j], tipset) } }
  /\ UNCHANGED << watcher, providerVars, storeVars >>

\* the stop that leaves the outstanding futures as they are
stopSilent ==
  /\ watcher = "running"
  /\ watcher' = "stopped"
  /\ UNCHANGED << watches, futures, due, revoked, providerVars, storeVars >>

\* Events::stop: every outstanding future completes with an error
stop ==
  /\ watcher = "running"
  /\ watcher' = "stopped"
  /\ futures' =
       [i \in DOMAIN futures |->
          IF \E j \in DOMAIN watches : watches[j].result = i
            THEN set_value(futures[i], FutureError)
            ELSE futures[i]]
  /\ watches' = << >>
  /\ UNCHANGED << due, revoked, providerVars, storeVars >>

OnDealSectorCommitted ==
  \E provider \in Addresses, deal_id \in DealIds :
    onDealSectorCommitted(provider, deal_id)

Apply == \E tipset \in Tipsets : onHeadChange(APPLY, tipset)

Revert == \E tipset \in Tipsets : onHeadChange(REVERT, tipset)

NextEvents == OnDealSectorCommitted \/ run \/ Apply \/ Revert \/ stop

\* the chain-event watcher with its subscribers and the head changes of the
\* chain
SpecEvents == Init /\ [][NextEvents]_vars


\* ------------------------------------------------------- the local store
\* SectorFileType, a bitmask of the file types
FTNone == 0
FTUnsealed == 1
FTSealed == 2
FTCache == 4

\* primitives::sector_file::kSectorFileTypes, in the order the loops go
kSectorFileTypes == << FTUnsealed, FTSealed, FTCache >>

SectorFileTypes == 0 .. 7

\* bit t of mask x
Bit(x, t) == (x \div t) % 2

\* x & y, x | y and x ^ y on SectorFileType
BitAnd(x, y) ==
  FTUnsealed * Bit(x, FTUnsealed) * Bit(y, FTUnsealed)
  + FTSealed * Bit(x, FTSealed) * Bit(y, FTSealed)
  + FTCache * Bit(x, FTCache) * Bit(y, FTCache)

BitOr(x, y) == x + y - BitAnd(x, y)

BitXor(x, y) == x + y - 2 * BitAnd(x, y)

\* toString(type)
toString(type) ==
  CASE type = FTUnsealed -> "unsealed"
    [] type = FTSealed -> "sealed"
    [] type = FTCache -> "cache"
    [] OTHER -> ""

\* the sectors files are kept for: SectorId{miner, sector}
SectorIds == { [miner |-> 1000, sector |-> 7] }

\* primitives::sector_file::sectorName(sector)
sectorName(sector) == << "s-t0", sector.miner, "-", sector.sector >>

\* the StorageInfo of each storage, as its metadata file gives it
StorageInfo(id) ==
  CASE id = "s1" -> [id |-> id, weight |-> 10, can_seal |-> TRUE,
                     can_store |-> FALSE]
    [] id = "s2" -> [id |-> id, weight |-> 5, can_seal |-> TRUE,
                     can_store |-> TRUE]
    [] id = "s3" -> [id |-> id, weight |-> 1, can_seal |-> FALSE,
                     can_store |-> TRUE]

\* the root each storage is opened with; s3 is opened with the empty path,
\* a root relative to the working directory
StoragePath(id) ==
  CASE id = "s1" -> "/tmp/s1"
    [] id = "s2" -> "/tmp/s2"
    [] id = "s3" -> ""

\* the storages of a set, best weight first
RECURSIVE SortByWeight(_)
SortByWeight(ids) ==
  IF ids = {}
    THEN << >>
    ELSE LET best == CHOOSE id \in ids :
                       \A other \in ids :
                         StorageInfo(other).weight <= StorageInfo(id).weight
         IN << best >> \o SortByWeight(ids \ { best })

IndexError == "INDEX_ERROR"

\* an answer of the index: the storages listed, or the error
Answer(infos) == [error |-> Success, value |-> infos]

Failure(error) == [error |-> error, value |-> << >>]

\* index_->storageFindSector(sector, type, false): the storages declared to
\* hold the file, or an error when the lookup for that type fails
storageFindSector(sector, type, failing) ==
  IF type = failing
    THEN Failure(IndexError)
    ELSE Answer(SortByWeight({ id \in index_.storages :
                                 << id, sector, type >> \in index_.sectors }))

\* index_->storageBestAlloc(type, seal_proof_type, can_seal): the attached
\* storages that can seal (or store), best weight first, or an error when
\* the lookup for that type fails; every attached storage has room
storageBestAlloc(type, can_seal, failing) ==
  IF type = failing
    THEN Failure(IndexError)
    ELSE Answer(SortByWeight({ id \in index_.storages :
                                 IF can_seal
                                   THEN StorageInfo(id).can_seal
                                   ELSE StorageInfo(id).can_store }))

FindAndAllocate == "FindAndAllocate"
NotFoundPath == "NotFoundPath"

EmptyPath == << >>
NoStorage == ""

\* AcquireSectorResponse result{}, with the index calls made so far
AcquireSectorResponse ==
  [error |-> Success,
   paths |-> [type \in { FTUnsealed, FTSealed, FTCache } |-> EmptyPath],
   stores |-> [type \in { FTUnsealed, FTSealed, FTCache } |-> NoStorage],
   calls |-> << >>]

\* the index call is noted with its answer
Called(acc, fn, type, answer) ==
  [acc EXCEPT !.calls = Append(@, [fn |-> fn, type |-> type,
                                   answer |-> answer])]

\* the loop without its break: the last such storage is the one kept
FirstLocalLast(infos) ==
  LET local == { i \in DOMAIN infos :
                   paths_[infos[i]] # NoPath /\ paths_[infos[i]] # "" }
  IN IF local = {} THEN 0 ELSE CHOOSE i \in local : \A k \in local : k <= i

\* the position in infos of the first storage found in paths_ with a path
\* that is not empty, 0 if there is none: the inner for loop up to its break
FirstLocal(infos) ==
  LET local == { i \in DOMAIN infos :
                   paths_[infos[i]] # NoPath /\ paths_[infos[i]] # "" }
  IN IF local = {} THEN 0 ELSE CHOOSE i \in local : \A k \in local : i <= k

\* spath: the root of the storage / toString(type) / sectorName(sector)
spath(id, type, sector) == << paths_[id], toString(type), sectorName(sector) >>

\* result.paths.setPathByType, result.stores.setPathByType
setPathByType(acc, type, id, sector) ==
  [acc EXCEPT !.paths[type] = spath(id, type, sector), !.stores[type] = id]

\* the first loop without the test of the type against existing
RECURSIVE findExistingAll(_, _, _, _, _)
findExistingAll(acc, sector, existing, failing, i) ==
  IF i > Len(kSectorFileTypes)
    THEN acc
    ELSE
      LET type == kSectorFileTypes[i]
          sectors_info_opt == storageFindSector(sector, type, failing)
          called == Called(acc, "storageFindSector", type, sectors_info_opt)
          k == FirstLocal(sectors_info_opt.value)
      IN IF sectors_info_opt.error # Success \/ k = 0
           THEN findExistingAll(called, sector, existing, failing, i + 1)
           ELSE findExistingAll(
                  setPathByType(called, type, sectors_info_opt.value[k],
                                sector),
                  sector, BitXor(existing, type), failing, i + 1)

\* the first loop that gives up on a type it cannot find locally
RECURSIVE findExistingStrict(_, _, _, _, _)
findExistingStrict(acc, sector, existing, failing, i) ==
  IF i > Len(kSectorFileTypes)
    THEN acc
    ELSE
      LET type == kSectorFileTypes[i]
          sectors_info_opt == storageFindSector(sector, type, failing)
          called == Called(acc, "storageFindSector", type, sectors_info_opt)
          k == FirstLocal(sectors_info_opt.value)
      IN IF BitAnd(type, existing) = 0
           THEN findExistingStrict(acc, sector, existing, failing, i + 1)
           ELSE IF sectors_info_opt.error # Success \/ k = 0
             THEN findExistingStrict([called EXCEPT !.error = NotFoundPath],
                                     sector, existing, failing, i + 1)
             ELSE findExistingStrict(
                    setPathByType(called, type, sectors_info_opt.value[k],
                                  sector),
                    sector, BitXor(existing, type), failing, i + 1)

\* the first loop of acquireSectorWithoutLock, from the i-th file type on
RECURSIVE findExisting(_, _, _, _, _)
findExisting(acc, sector, existing, failing, i) ==
  IF i > Len(kSectorFileTypes)
    THEN acc
    ELSE
      LET type == kSectorFileTypes[i]
          sectors_info_opt == storageFindSector(sector, type, failing)
          called == Called(acc, "storageFindSector", type, sectors_info_opt)
          k == FirstLocal(sectors_info_opt.value)
      IN IF BitAnd(type, existing) = 0
           THEN findExisting(acc, sector, existing, failing, i + 1)
           ELSE IF sectors_info_opt.error # Success \/ k = 0
             THEN findExisting(called, sector, existing, failing, i + 1)
             ELSE findExisting(
                    setPathByType(called, type, sectors_info_opt.value[k],
                                  sector),
                    sector, BitXor(existing, type), failing, i + 1)

\* the second loop of acquireSectorWithoutLock, from the i-th file type on:
\* an error of the index or a type with no local candidate ends the call
RECURSIVE allocateBest(_, _, _, _, _, _)
allocateBest(acc, sector, allocate, can_seal, failing, i) ==
  IF i > Len(kSectorFileTypes)
    THEN acc
    ELSE
      LET type == kSectorFileTypes[i]
          sectors_info == storageBestAlloc(type, can_seal, failing)
          called == Called(acc, "storageBestAlloc", type, sectors_info)
          k == FirstLocal(sectors_info.value)
      IN IF BitAnd(type, allocate) = 0
           THEN allocateBest(acc, sector, allocate, can_seal, failing, i + 1)
           ELSE IF sectors_info.error # Success
             THEN [AcquireSectorResponse EXCEPT
                     !.error = sectors_info.error, !.calls = called.calls]
           ELSE IF k = 0
             THEN [AcquireSectorResponse EXCEPT
                     !.error = NotFoundPath, !.calls = called.calls]
           ELSE allocateBest(
                  setPathByType(called, type, sectors_info.value[k], sector),
                  sector, BitXor(allocate, type), can_seal, failing, i + 1)

\* LocalStore::acquireSectorWithoutLock
acquireSectorWithoutLock(sector, existing, allocate, can_seal, failing) ==
  allocateBest(findExisting(AcquireSectorResponse, sector, existing, failing,
                            1),
               sector, allocate, can_seal, failing, 1)

\* the call that refuses only equal masks
acquireSectorResultEqual(sector, existing, allocate, can_seal, failing) ==
  IF existing = allocate /\ existing # FTNone
    THEN [AcquireSectorResponse EXCEPT !.error = FindAndAllocate]
    ELSE acquireSectorWithoutLock(sector, existing, allocate, can_seal,
                                  failing)

\* LocalStore::acquireSector: what the call returns, with its index calls
acquireSectorResult(sector, existing, allocate, can_seal, failing) ==
  IF BitOr(existing, allocate) # BitXor(existing, allocate)
    THEN [AcquireSectorResponse EXCEPT !.error = FindAndAllocate]
    ELSE acquireSectorWithoutLock(sector, existing, allocate, can_seal,
                                  failing)

\* LocalStore::acquireSector, with failing the file type for which the
\* lookups of the index fail, if any. The call changes nothing in the store,
\* so one call is followed from each state of the store.
acquireSector(sector, existing, allocate, can_seal, failing) ==
  /\ response = NoResponse
  /\ response' =
       [op |-> "acquireSector", sector |-> sector, existing |-> existing,
        allocate |-> allocate, can_seal |-> can_seal,
        result |-> acquireSectorResult(sector, existing, allocate, can_seal,
                                       failing)]
  /\ UNCHANGED << paths_, index_, disk, mutex_, threads, providerVars,
                  watcherVars >>

AcquireSector ==
  \E sector \in SectorIds, existing \in SectorFileTypes,
     allocate \in SectorFileTypes, can_seal \in BOOLEAN,
     failing \in { FTNone, FTUnsealed, FTSealed, FTCache } :
    acquireSector(sector, existing, allocate, can_seal, failing)

\* a local store with some of the storages attached to the index, some of
\* these opened, and up to MaxDeclared sector files declared
InitAcquire ==
  /\ InitProvider
  /\ InitEvents
  /\ response = NoResponse
  /\ disk = {}
  /\ mutex_ = Unlocked
  /\ threads = [t \in Threads |-> Idle]
  /\ \E attached \in SUBSET StorageIDs :
       /\ paths_ \in [StorageIDs -> { NoPath } \cup
                                     { StoragePath(id) : id \in StorageIDs }]
       /\ \A id \in StorageIDs :
            /\ paths_[id] \in { NoPath, StoragePath(id) }
            /\ paths_[id] # NoPath => id \in attached
       /\ \E declared \in SUBSET (attached \X SectorIds
                                    \X { FTUnsealed, FTSealed, FTCache }) :
            /\ Cardinality(declared) <= MaxDeclared
            /\ index_ = [storages |-> attached, sectors |-> declared]

NextAcquire == AcquireSector

\* acquireSector called on a local store in any state
SpecAcquire == InitAcquire /\ [][NextAcquire]_vars


\* ------------------------------------------ the local store and its disk
\* a directory entry that is no sector file
BadName == << "fetching" >>

\* the names the entries of a type directory can have
FileNames == { sectorName(sector) : sector \in SectorIds } \cup { BadName }

\* root / toString(type) / name, for the storage with that root
File(id, type, name) == << id, type, name >>

InvalidSectorName == "InvalidSectorName"

\* parseSectorId(filename): the name has to match s-t0<miner>-<sector>
parseSectorId(filename) ==
  IF Len(filename) = 4 /\ filename[1] = "s-t0" /\ filename[3] = "-"
    THEN Answer([miner |-> filename[2], sector |-> filename[4]])
    ELSE Failure(InvalidSectorName)

\* what can go wrong in a call of the store: the lookups of the index for a
\* file type fail, or every call of one function of the index or of the file
\* system does
NoFault == [fails |-> "nothing", type |-> FTNone]
LookupFault(type) == [fails |-> "lookup", type |-> type]
CallFault(fn) == [fails |-> fn, type |-> FTNone]

\* the file types of a mask
TypesOf(mask) == { t \in { FTUnsealed, FTSealed, FTCache } : Bit(mask, t) = 1 }

\* the file type for which the lookups fail, FTNone if there is none
failingType(fault) == fault.type

\* index_->storageAttach(info, stat)
storageAttach(index, info) ==
  [index EXCEPT !.storages = @ \cup { info.id }]

\* index_->storageDeclareSector(storage_id, sector, type)
storageDeclareSector(index, id, sector, type) ==
  [index EXCEPT !.sectors = @ \cup { << id, sector, type >> }]

\* index_->storageDropSector(storage_id, sector, type)
storageDropSector(index, id, sector, type) ==
  [index EXCEPT !.sectors = @ \ { << id, sector, type >> }]

NotFoundStorage == "NotFoundStorage"

\* index_->getStorageInfo(id)
getStorageInfo(id) ==
  IF id \in index_.storages
    THEN Answer(StorageInfo(id))
    ELSE Failure(NotFoundStorage)

\* the index and the disk as a call has left them so far, and its outcome
StoreState == [index |-> index_, disk |-> disk, error |-> Success]

RemoveSeveralFileTypes == "RemoveSeveralFileTypes"
NotFoundSector == "NotFoundSector"
CannotRemoveSector == "CannotRemoveSector"

\* the loop of remove that stops at the first storage it handled
RECURSIVE removeEachFirst(_, _, _, _, _, _)
removeEachFirst(st, storages_info, sector, type, fault, i) ==
  IF i > Len(storages_info)
    THEN st
    ELSE
      LET id == storages_info[i]
      IN IF paths_[id] = NoPath \/ paths_[id] = ""
           THEN removeEachFirst(st, storages_info, sector, type, fault, i + 1)
           ELSE [st EXCEPT
                   !.index = storageDropSector(@, id, sector, type),
                   !.disk = @ \ { File(id, type, sectorName(sector)) }]

\* the loop of remove over the storages the index listed, from the i-th on:
\* the entry of the index is dropped, then the file is removed
RECURSIVE removeEach(_, _, _, _, _, _)
removeEach(st, storages_info, sector, type, fault, i) ==
  IF i > Len(storages_info)
    THEN st
    ELSE
      LET id == storages_info[i]
          dropped == [st EXCEPT
                        !.index = storageDropSector(@, id, sector, type)]
      IN IF paths_[id] = NoPath \/ paths_[id] = ""
           THEN removeEach(st, storages_info, sector, type, fault, i + 1)
           ELSE IF fault = CallFault("storageDropSector")
             THEN [st EXCEPT !.error = IndexError]
           ELSE IF fault = CallFault("remove_all")
             THEN [dropped EXCEPT !.error = CannotRemoveSector]
           ELSE removeEach(
                  [dropped EXCEPT
                     !.disk = @ \ { File(id, type, sectorName(sector)) }],
                  storages_info, sector, type, fault, i + 1)

\* remove without the test of its type
removeResultUnchecked(sector, type, fault) ==
  LET storages_info == storageFindSector(sector, type, failingType(fault))
  IN IF storages_info.error # Success
       THEN [StoreState EXCEPT !.error = storages_info.error]
       ELSE IF storages_info.value = << >>
         THEN [StoreState EXCEPT !.error = NotFoundSector]
       ELSE removeEach(StoreState, storages_info.value, sector, type, fault, 1)

\* LocalStore::remove: the index and the disk it leaves, and what it returns
removeResult(sector, type, fault) ==
  LET storages_info == storageFindSector(sector, type, failingType(fault))
  IN IF type = FTNone \/ BitAnd(type, type - 1) # 0
       THEN [StoreState EXCEPT !.error = RemoveSeveralFileTypes]
       ELSE IF storages_info.error # Success
         THEN [StoreState EXCEPT !.error = storages_info.error]
       ELSE IF storages_info.value = << >>
         THEN [StoreState EXCEPT !.error = NotFoundSector]
       ELSE removeEach(StoreState, storages_info.value, sector, type, fault, 1)

\* LocalStore::remove
remove(sector, type, fault) ==
  \E result \in { removeResult(sector, type, fault) } :
     /\ index_' = result.index
     /\ disk' = result.disk
     /\ response' = [op |-> "remove", sector |-> sector, type |-> type,
                     error |-> result.error]
     /\ UNCHANGED << paths_, mutex_, threads, providerVars, watcherVars >>

\* what can go wrong in remove
RemoveFaults(type) ==
  IF Cardinality(TypesOf(type)) = 1
    THEN { NoFault, LookupFault(type), CallFault("storageDropSector"),
           CallFault("remove_all") }
    ELSE { NoFault }

Remove ==
  \E sector \in SectorIds, type \in SectorFileTypes :
    \E fault \in RemoveFaults(type) : remove(sector, type, fault)

InvalidStorageConfig == "InvalidStorageConfig"
DuplicateStorage == "DuplicateStorage"

\* the entries of the type directory of a storage
Entries(id, type) == { name \in FileNames : File(id, type, name) \in disk }

\* the entries of a set that name a sector
SectorFiles(names) == { name \in names : parseSectorId(name).error = Success }

\* every sector file of a set of entries is declared
RECURSIVE declareAll(_, _, _, _)
declareAll(index, id, type, names) ==
  IF SectorFiles(names) = {}
    THEN index
    ELSE LET name == CHOOSE n \in SectorFiles(names) : TRUE
         IN declareAll(
              storageDeclareSector(index, id, parseSectorId(name).value,
                                   type),
              id, type, names \ { name })

\* the scan of openPath, from the i-th type directory on. The entries of a
\* directory come in no fixed order: when one of them names no sector, the
\* entries in before are those the iteration met first.
RECURSIVE scan(_, _, _, _)
scan(st, id, before, i) ==
  IF i > Len(kSectorFileTypes)
    THEN st
    ELSE
      LET type == kSectorFileTypes[i]
          names == Entries(id, type)
      IN IF names = SectorFiles(names)
           THEN scan([st EXCEPT !.index = declareAll(@, id, type, names)],
                     id, before, i + 1)
           ELSE [st EXCEPT
                   !.index = declareAll(@, id, type, names \cap before),
                   !.error = InvalidSectorName]

\* openPath without the lookup of the metadata id in paths_
openPathResultAgain(id, fault, before) ==
  IF fault = CallFault("read")
    THEN [StoreState EXCEPT !.error = InvalidStorageConfig]
    ELSE IF fault = CallFault("storageAttach")
      THEN [StoreState EXCEPT !.error = IndexError]
    ELSE scan([StoreState EXCEPT
                 !.index = storageAttach(@, StorageInfo(id))],
              id, before, 1)

\* LocalStore::openPath for the root whose metadata file names storage id:
\* the index it leaves and what it returns
openPathResult(id, fault, before) ==
  IF fault = CallFault("read")
    THEN [StoreState EXCEPT !.error = InvalidStorageConfig]
    ELSE IF paths_[id] # NoPath
      THEN [StoreState EXCEPT !.error = DuplicateStorage]
    ELSE IF fault = CallFault("storageAttach")
      THEN [StoreState EXCEPT !.error = IndexError]
    ELSE scan([StoreState EXCEPT
                 !.index = storageAttach(@, StorageInfo(id))],
              id, before, 1)

\* LocalStore::openPath
openPath(id, fault, before) ==
  \E result \in { openPathResult(id, fault, before) } :
     /\ index_' = result.index
     /\ paths_' = IF result.error = Success
                    THEN [paths_ EXCEPT ![id] = StoragePath(id)]
                    ELSE paths_
     /\ response' = [op |-> "openPath", id |-> id, error |-> result.error]
     /\ UNCHANGED << disk, mutex_, threads, providerVars, watcherVars >>

\* what can go wrong in openPath
OpenFaults == { NoFault, CallFault("read"), CallFault("storageAttach") }

OpenPath ==
  \E id \in StorageIDs, fault \in OpenFaults,
     before \in SUBSET SectorFiles(FileNames) :
    openPath(id, fault, before)

CannotMoveSector == "CannotMoveSector"

\* SectorPaths::getPathByType(type)
getPathByType(paths, type) == Answer(paths[type])

\* boost::filesystem::rename(source_path, dest_path): the entry leaves the
\* source directory for the destination directory
rename(files, source, dest) == (files \ { source }) \cup { dest }

\* the step that declares the destination without dropping the source
moveOneKeeping(st, sector, type, source, destination, fault) ==
  [st EXCEPT
     !.index = storageDeclareSector(@, destination, sector, type),
     !.disk = rename(@, File(source, type, sectorName(sector)),
                     File(destination, type, sectorName(sector)))]

\* the step that declares the destination before it renames the file
moveOneDeclaringFirst(st, sector, type, source, destination, fault) ==
  LET declared == [st EXCEPT
                     !.index = storageDeclareSector(
                                 storageDropSector(@, source, sector, type),
                                 destination, sector, type)]
      source_path == File(source, type, sectorName(sector))
      dest_path == File(destination, type, sectorName(sector))
  IN IF fault = CallFault("storageDropSector")
          \/ fault = CallFault("storageDeclareSector")
       THEN [st EXCEPT !.error = IndexError]
       ELSE IF fault = CallFault("rename") \/ source_path \notin st.disk
         THEN [declared EXCEPT !.error = CannotMoveSector]
       ELSE [declared EXCEPT !.disk = rename(@, source_path, dest_path)]

\* one file moved from its source storage to its destination: the entry of
\* the index is dropped, the file renamed, the destination declared
moveOne(st, sector, type, source, destination, fault) ==
  LET dropped == [st EXCEPT
                    !.index = storageDropSector(@, source, sector, type)]
      source_path == File(source, type, sectorName(sector))
      dest_path == File(destination, type, sectorName(sector))
      renamed == [dropped EXCEPT !.disk = rename(@, source_path, dest_path)]
  IN IF fault = CallFault("storageDropSector")
       THEN [st EXCEPT !.error = IndexError]
       ELSE IF fault = CallFault("rename") \/ source_path \notin st.disk
         THEN [dropped EXCEPT !.error = CannotMoveSector]
       ELSE IF fault = CallFault("storageDeclareSector")
         THEN [renamed EXCEPT !.error = IndexError]
       ELSE [renamed EXCEPT
               !.index = storageDeclareSector(@, destination, sector, type)]

\* the loop of moveStorage over the file types, from the i-th on
RECURSIVE moveEach(_, _, _, _, _, _, _)
moveEach(st, sector, types, src, dest, fault, i) ==
  IF i > Len(kSectorFileTypes)
    THEN st
    ELSE
      LET type == kSectorFileTypes[i]
          source_storage_id == getPathByType(src.stores, type).value
          sst == getStorageInfo(source_storage_id)
          dest_storage_id == getPathByType(dest.stores, type).value
          dst == getStorageInfo(dest_storage_id)
          moved == moveOne(st, sector, type, source_storage_id,
                           dest_storage_id, fault)
      IN IF BitAnd(types, type) = 0
           THEN moveEach(st, sector, types, src, dest, fault, i + 1)
           ELSE IF sst.error # Success
             THEN [st EXCEPT !.error = sst.error]
           ELSE IF dst.error # Success
             THEN [st EXCEPT !.error = dst.error]
           ELSE IF sst.value.id = dst.value.id \/ sst.value.can_store
             THEN moveEach(st, sector, types, src, dest, fault, i + 1)
           ELSE IF moved.error # Success
             THEN moved
           ELSE moveEach(moved, sector, types, src, dest, fault, i + 1)

\* LocalStore::moveStorage: the index and the disk it leaves, and what it
\* returns
moveStorageResult(sector, types, fault) ==
  LET dest == acquireSectorWithoutLock(sector, FTNone, types, FALSE,
                                       failingType(fault))
      src == acquireSectorWithoutLock(sector, types, FTNone, FALSE,
                                      failingType(fault))
  IN IF dest.error # Success
       THEN [StoreState EXCEPT !.error = dest.error]
       ELSE moveEach(StoreState, sector, types, src, dest, fault, 1)

\* LocalStore::moveStorage
moveStorage(sector, types, fault) ==
  \E result \in { moveStorageResult(sector, types, fault) } :
     /\ index_' = result.index
     /\ disk' = result.disk
     /\ response' = [op |-> "moveStorage", sector |-> sector,
                     types |-> types, error |-> result.error]
     /\ UNCHANGED << paths_, mutex_, threads, providerVars, watcherVars >>

\* what can go wrong in moveStorage
MoveFaults(types) ==
  { NoFault, CallFault("storageDropSector"), CallFault("rename"),
    CallFault("storageDeclareSector") }
    \cup { LookupFault(type) : type \in TypesOf(types) }

MoveStorage ==
  \E sector \in SectorIds, types \in SectorFileTypes :
    \E fault \in MoveFaults(types) : moveStorage(sector, types, fault)

\* the entries the type directories can hold when the store is constructed
DiskFiles ==
  { File("s1", FTSealed, sectorName([miner |-> 1000, sector |-> 7])),
    File("s1", FTUnsealed, sectorName([miner |-> 1000, sector |-> 7])),
    File("s1", FTCache, BadName),
    File("s2", FTSealed, sectorName([miner |-> 1000, sector |-> 7])),
    File("s2", FTUnsealed, BadName),
    File("s3", FTSealed, sectorName([miner |-> 1000, sector |-> 7])) }

\* a local store just constructed, over storages whose type directories
\* hold up to MaxDeclared entries
InitDisk ==
  /\ InitProvider
  /\ InitEvents
  /\ paths_ = [id \in StorageIDs |-> NoPath]
  /\ index_ = [storages |-> {}, sectors |-> {}]
  /\ response = NoResponse
  /\ mutex_ = Unlocked
  /\ threads = [t \in Threads |-> Idle]
  /\ disk \in SUBSET DiskFiles
  /\ Cardinality(disk) <= MaxDeclared

NextStore == OpenPath \/ Remove \/ MoveStorage

\* the calls that change the local store, one after the other
SpecStore == InitDisk /\ [][NextStore]_vars

\* ------------------------------------------- the local store and its lock
\* std::unique_lock lock(mutex_): the thread waits until nobody owns the lock
unique_lock(t) ==
  /\ mutex_ = Unlocked
  /\ mutex_' = [mutex_ EXCEPT !.exclusive = t]

\* std::shared_lock lock(mutex_): the thread waits while the lock is owned
\* exclusively
shared_lock(t) ==
  /\ mutex_.exclusive = NoThread
  /\ t \notin mutex_.shared
  /\ mutex_' = [mutex_ EXCEPT !.shared = @ \cup { t }]

\* the lock object goes out of scope when the call returns
unlock(t) ==
  mutex_' = [exclusive |-> IF mutex_.exclusive = t
                             THEN NoThread
                             ELSE mutex_.exclusive,
             shared |-> mutex_.shared \ { t }]

\* a thread in a call: the call and its arguments, how far it has got, and
\* for moveStorage its locals src.stores, dest.stores and the loop's position
Frame(op, args, pc) ==
  [op |-> op, args |-> args, pc |-> pc,
   src |-> AcquireSectorResponse.stores, dest |-> AcquireSectorResponse.stores,
   i |-> 0]

\* the calls the threads make
Calls ==
  { [op |-> "acquireSector", sector |-> sector, existing |-> FTSealed,
     allocate |-> FTNone] : sector \in SectorIds }
    \cup { [op |-> "getFsStat", id |-> id] : id \in { "s1" } }
    \cup { [op |-> "remove", sector |-> sector, type |-> FTSealed] :
             sector \in SectorIds }
    \cup { [op |-> "moveStorage", sector |-> sector, types |-> FTSealed] :
             sector \in SectorIds }
    \cup { [op |-> "openPath", id |-> id] : id \in { "s1", "s2" } }

\* a thread enters a call of the store
enter(t, args) ==
  /\ threads[t] = Idle
  /\ threads' = [threads EXCEPT ![t] = Frame(args.op, args, "lock")]
  /\ UNCHANGED << paths_, index_, disk, response, mutex_, providerVars,
                  watcherVars >>

\* every call takes the lock shared
lockShared(t) ==
  /\ threads[t].pc = "lock"
  /\ shared_lock(t)
  /\ threads' = [threads EXCEPT ![t].pc = "locked"]
  /\ UNCHANGED << paths_, index_, disk, response, providerVars, watcherVars >>

\* the call's lock is taken: shared in acquireSector and getFsStat, exclusive
\* in remove, moveStorage and openPath
lock(t) ==
  /\ threads[t].pc = "lock"
  /\ IF threads[t].op \in { "acquireSector", "getFsStat" }
       THEN shared_lock(t)
       ELSE unique_lock(t)
  /\ threads' = [threads EXCEPT ![t].pc = "locked"]
  /\ UNCHANGED << paths_, index_, disk, response, providerVars, watcherVars >>

\* the thread returns from its call and the lock is released
return(t) ==
  /\ threads[t].pc = "return"
  /\ unlock(t)
  /\ threads' = [threads EXCEPT ![t] = Idle]
  /\ UNCHANGED << paths_, index_, disk, response, providerVars, watcherVars >>

\* LocalStore::acquireSector, under its lock
acquireSectorLocked(t) ==
  LET args == threads[t].args
  IN /\ threads[t].op = "acquireSector" /\ threads[t].pc = "locked"
     /\ response' =
          [op |-> "acquireSector", sector |-> args.sector,
           existing |-> args.existing, allocate |-> args.allocate,
           can_seal |-> FALSE,
           result |-> acquireSectorWithoutLock(args.sector, args.existing,
                                               args.allocate, FALSE, FTNone)]
     /\ threads' = [threads EXCEPT ![t].pc = "return"]
     /\ UNCHANGED << paths_, index_, disk, mutex_, providerVars, watcherVars >>

\* LocalStore::getFsStat, under its lock
getFsStat(t) ==
  LET id == threads[t].args.id
  IN /\ threads[t].op = "getFsStat" /\ threads[t].pc = "locked"
     /\ response' = [op |-> "getFsStat", id |-> id,
                     error |-> IF paths_[id] = NoPath
                                 THEN NotFoundStorage
                                 ELSE Success]
     /\ threads' = [threads EXCEPT ![t].pc = "return"]
     /\ UNCHANGED << paths_, index_, disk, mutex_, providerVars, watcherVars >>

\* LocalStore::remove, under its lock
removeLocked(t) ==
  LET args == threads[t].args
  IN /\ threads[t].op = "remove" /\ threads[t].pc = "locked"
     /\ \E result \in { removeResult(args.sector, args.type, NoFault) } :
          /\ index_' = result.index
          /\ disk' = result.disk
          /\ response' = [op |-> "remove", sector |-> args.sector,
                          type |-> args.type, error |-> result.error]
     /\ threads' = [threads EXCEPT ![t].pc = "return"]
     /\ UNCHANGED << paths_, mutex_, providerVars, watcherVars >>

\* LocalStore::openPath, under its lock
openPathLocked(t) ==
  LET id == threads[t].args.id
  IN /\ threads[t].op = "openPath" /\ threads[t].pc = "locked"
     /\ \E result \in { openPathResult(id, NoFault, {}) } :
          /\ index_' = result.index
          /\ paths_' = IF result.error = Success
                         THEN [paths_ EXCEPT ![id] = StoragePath(id)]
                         ELSE paths_
          /\ response' = [op |-> "openPath", id |-> id,
                          error |-> result.error]
     /\ threads' = [threads EXCEPT ![t].pc = "return"]
     /\ UNCHANGED << disk, mutex_, providerVars, watcherVars >>

\* moveStorage returns at this point with this result
moveStorageReturn(t, error) ==
  /\ response' = [op |-> "moveStorage", sector |-> threads[t].args.sector,
                  types |-> threads[t].args.types, error |-> error]
  /\ threads' = [threads EXCEPT ![t].pc = "return"]

\* moveStorage calling acquireSector, which takes the lock again
moveStorageAcquireLocking(t) ==
  /\ threads[t].op = "moveStorage" /\ threads[t].pc = "locked"
  /\ shared_lock(t)
  /\ threads' = [threads EXCEPT ![t].pc = "loop", ![t].i = 1]
  /\ UNCHANGED << paths_, index_, disk, response, providerVars, watcherVars >>

\* LocalStore::moveStorage, under its lock: the two acquireSectorWithoutLock
\* calls
moveStorageAcquire(t) ==
  LET args == threads[t].args
      dest == acquireSectorWithoutLock(args.sector, FTNone, args.types, FALSE,
                                       FTNone)
      src == acquireSectorWithoutLock(args.sector, args.types, FTNone, FALSE,
                                      FTNone)
  IN /\ threads[t].op = "moveStorage" /\ threads[t].pc = "locked"
     /\ IF dest.error # Success
          THEN moveStorageReturn(t, dest.error)
          ELSE /\ threads' = [threads EXCEPT
                                ![t].pc = "loop", ![t].i = 1,
                                ![t].src = src.stores,
                                ![t].dest = dest.stores]
               /\ UNCHANGED response
     /\ UNCHANGED << paths_, index_, disk, mutex_, providerVars, watcherVars >>

\* the loop of moveStorage up to storageDropSector for the next file to move
moveStorageDrop(t) ==
  LET m == threads[t]
      type == kSectorFileTypes[m.i]
      sst == getStorageInfo(m.src[type])
      dst == getStorageInfo(m.dest[type])
  IN /\ m.op = "moveStorage" /\ m.pc = "loop"
     /\ IF m.i > Len(kSectorFileTypes)
          THEN moveStorageReturn(t, Success) /\ UNCHANGED index_
          ELSE IF BitAnd(m.args.types, type) = 0
            THEN /\ threads' = [threads EXCEPT ![t].i = @ + 1]
                 /\ UNCHANGED << index_, response >>
          ELSE IF sst.error # Success
            THEN moveStorageReturn(t, sst.error) /\ UNCHANGED index_
          ELSE IF dst.error # Success
            THEN moveStorageReturn(t, dst.error) /\ UNCHANGED index_
          ELSE IF sst.value.id = dst.value.id \/ sst.value.can_store
            THEN /\ threads' = [threads EXCEPT ![t].i = @ + 1]
                 /\ UNCHANGED << index_, response >>
          ELSE /\ index_' = storageDropSector(index_, m.src[type],
                                              m.args.sector, type)
               /\ threads' = [threads EXCEPT ![t].pc = "rename"]
               /\ UNCHANGED response
     /\ UNCHANGED << paths_, disk, mutex_, providerVars, watcherVars >>

\* boost::filesystem::rename of the file being moved
moveStorageRename(t) ==
  LET m == threads[t]
      type == kSectorFileTypes[m.i]
      source_path == File(m.src[type], type, sectorName(m.args.sector))
      dest_path == File(m.dest[type], type, sectorName(m.args.sector))
  IN /\ m.op = "moveStorage" /\ m.pc = "rename"
     /\ IF source_path \notin disk
          THEN moveStorageReturn(t, CannotMoveSector) /\ UNCHANGED disk
          ELSE /\ disk' = rename(disk, source_path, dest_path)
               /\ threads' = [threads EXCEPT ![t].pc = "declare"]
               /\ UNCHANGED response
     /\ UNCHANGED << paths_, index_, mutex_, providerVars, watcherVars >>

\* storageDeclareSector for the file moved, and on to the next file type
moveStorageDeclare(t) ==
  LET m == threads[t]
      type == kSectorFileTypes[m.i]
  IN /\ m.op = "moveStorage" /\ m.pc = "declare"
     /\ index_' = storageDeclareSector(index_, m.dest[type], m.args.sector,
                                       type)
     /\ threads' = [threads EXCEPT ![t].pc = "loop", ![t].i = @ + 1]
     /\ UNCHANGED << paths_, disk, response, mutex_, providerVars,
                     watcherVars >>

\* a store just constructed, with the sealed file of the sector in s1, which
\* cannot store
InitLock ==
  /\ InitProvider
  /\ InitEvents
  /\ paths_ = [id \in StorageIDs |-> NoPath]
  /\ index_ = [storages |-> {}, sectors |-> {}]
  /\ response = NoResponse
  /\ mutex_ = Unlocked
  /\ threads = [t \in Threads |-> Idle]
  /\ \E sector \in SectorIds :
       disk = { File("s1", FTSealed, sectorName(sector)) }

Call == \E t \in Threads, args \in Calls : enter(t, args)
Lock == \E t \in Threads : lock(t)
Return == \E t \in Threads : return(t)
AcquireSectorLocked == \E t \in Threads : acquireSectorLocked(t)
GetFsStat == \E t \in Threads : getFsStat(t)
RemoveLocked == \E t \in Threads : removeLocked(t)
OpenPathLocked == \E t \in Threads : openPathLocked(t)
MoveStorageAcquire == \E t \in Threads : moveStorageAcquire(t)
MoveStorageDrop == \E t \in Threads : moveStorageDrop(t)
MoveStorageRename == \E t \in Threads : moveStorageRename(t)
MoveStorageDeclare == \E t \in Threads : moveStorageDeclare(t)

\* the steps of the calls under way
Proceed ==
  \/ Lock \/ Return
  \/ AcquireSectorLocked \/ GetFsStat \/ RemoveLocked \/ OpenPathLocked
  \/ MoveStorageAcquire \/ MoveStorageDrop \/ MoveStorageRename
  \/ MoveStorageDeclare

NextLock == Call \/ Proceed

\* the threads' calls of the store, step by step
SpecLock == InitLock /\ [][NextLock]_vars

\* ---------------------------------------------------------------- claims
Range(q) == { q[i] : i \in 1 .. Len(q) }

IsPrefix(q, r) == Len(q) <= Len(r) /\ \A i \in 1 .. Len(q) : q[i] = r[i]

State(d) == deals[d].state

\* C1: once a deal's state is terminal (completed, error, expired, slashed,
\* rejected), no event changes it again, whatever events are posted, the
\* fromAny event ProviderEventNodeErrored included.
C1_TerminalIsFinal ==
  [][\A d \in Deals :
       State(d) \in Terminal =>
         /\ deals'[d].state = State(d)
         /\ history'[d] = history[d]]_vars

\* a ProviderEventNodeErrored was taken from the queue for a deal in a
\* terminal state
C1_Witness ==
  /\ last.deal \in Deals
  /\ last.event = ProviderEventNodeErrored
  /\ last.from \in Terminal
  /\ State(last.deal) \in Terminal

\* C2 as stated: no deal is put a second time in a state it has been in,
\* failing included, whatever events are posted.
C2_NoStateReentered ==
  \A d \in Deals :
    \A i, j \in 1 .. Len(history[d]) :
      i # j => history[d][i] # history[d][j]

\* C2 amended: the only state a deal is put in again is failing, and only by
\* ProviderEventNodeErrored arriving while the deal is already failing: a
\* state repeats in the deal's history only as a run of consecutive failing.
C2_OnlyFailingRepeats ==
  \A d \in Deals :
    \A i, j \in 1 .. Len(history[d]) :
      (i < j /\ history[d][i] = history[d][j]) =>
        \A k \in i .. j : history[d][k] = STORAGE_DEAL_FAILING

\* a deal already failing was put in failing again by ProviderEventNodeErrored
C2_Witness ==
  /\ last.deal \in Deals
  /\ last.event = ProviderEventNodeErrored
  /\ last.from = STORAGE_DEAL_FAILING
  /\ last.to = STORAGE_DEAL_FAILING
  /\ \E i \in 1 .. Len(history[last.deal]) - 1 :
       /\ history[last.deal][i] = STORAGE_DEAL_FAILING
       /\ history[last.deal][i + 1] = STORAGE_DEAL_FAILING

\* C3: every deal that reaches proposal_accepted eventually reaches a
\* terminal state, for both transfer types, provided queued events are
\* dispatched and awaited manual data is imported.
C3_AcceptedReachesTerminal ==
  \A d \in 1 .. MaxStreams :
    (d \in Deals /\ State(d) = STORAGE_DEAL_PROPOSAL_ACCEPTED)
      ~> (d \in Deals /\ State(d) \in Terminal)

ManualPath ==
  << STORAGE_DEAL_UNKNOWN, STORAGE_DEAL_VALIDATING,
     STORAGE_DEAL_PROPOSAL_ACCEPTED, STORAGE_DEAL_WAITING_FOR_DATA >>

\* C4: a deal of a manual-transfer proposal goes through exactly unknown,
\* validating, proposal_accepted, waiting_for_data in that order; it leaves
\* waiting_for_data only after importDataForDeal was called for it, and with
\* nothing queued for it and no import it rests in waiting_for_data.
C4_ManualDealWaitsForData ==
  \A d \in Deals :
    deals[d].ref = kTransferTypeManual =>
      /\ IsPrefix(history[d], ManualPath) \/ IsPrefix(ManualPath, history[d])
      /\ Len(history[d]) > Len(ManualPath) => d \in imported
      /\ (Pending(d) = {} /\ d \notin imported) =>
           /\ history[d] = ManualPath
           /\ State(d) = STORAGE_DEAL_WAITING_FOR_DATA

\* a manual deal has gone through the four states and waits, nothing queued
\* for it, importDataForDeal not yet called
C4_Witness ==
  \E d \in Deals :
    /\ deals[d].ref = kTransferTypeManual
    /\ history[d] = ManualPath
    /\ State(d) = STORAGE_DEAL_WAITING_FOR_DATA
    /\ last = [deal |-> d, event |-> ProviderEventWaitingForManualData,
               from |-> STORAGE_DEAL_PROPOSAL_ACCEPTED,
               to |-> STORAGE_DEAL_WAITING_FOR_DATA]
    /\ Pending(d) = {}
    /\ d \notin imported

HappyPath ==
  ManualPath \o
  << STORAGE_DEAL_VERIFY_DATA, STORAGE_DEAL_ENSURE_PROVIDER_FUNDS,
     STORAGE_DEAL_PUBLISH, STORAGE_DEAL_PUBLISHING, STORAGE_DEAL_STAGED,
     STORAGE_DEAL_SEALING, STORAGE_DEAL_ACTIVE, STORAGE_DEAL_COMPLETED >>

\* C5: after importDataForDeal with matching data on a waiting deal, with no
\* funding message needed, the deal goes through exactly verify_data,
\* ensure_provider_funds, publish, publishing, staged, sealing, active,
\* completed: the history of an imported deal that needed no funding message
\* follows that path, and a completed one has all of it.
C5_ImportDrivesHappyPath ==
  \A d \in Deals :
    (d \in imported /\ deals[d].add_funds_cid = NoCid
       /\ STORAGE_DEAL_FAILING \notin Range(history[d])) =>
      /\ IsPrefix(history[d], HappyPath)
      /\ State(d) = STORAGE_DEAL_COMPLETED => history[d] = HappyPath


PieceCidDoesNotMatch == "PieceCidDoesNotMatch"

\* C6: importDataForDeal on a deal in waiting_for_data with data whose piece
\* commitment differs from the proposal's piece_cid moves the deal to failing
\* and then error, and the deal's message reflects PieceCidDoesNotMatch: once
\* nothing is queued for the deal it is in failing or error with that message.
C6_MismatchFailsDeal ==
  \A d \in mismatched :
    Pending(d) = {} =>
      /\ State(d) \in { STORAGE_DEAL_FAILING, STORAGE_DEAL_ERROR }
      /\ deals[d].message = PieceCidDoesNotMatch

\* C7: a deal whose ensure-funds step got a funding message CID records it
\* in add_funds_cid and enters provider_funding; a deal that got none keeps
\* add_funds_cid unset and goes from ensure_provider_funds to publish without
\* ever being in provider_funding.
C7_FundingOnlyWithMessage ==
  \A d \in Deals :
    /\ (deals[d].add_funds_cid # NoCid /\ Pending(d) = {}) =>
         STORAGE_DEAL_PROVIDER_FUNDING \in Range(history[d])
    /\ STORAGE_DEAL_PROVIDER_FUNDING \in Range(history[d]) =>
         deals[d].add_funds_cid # NoCid

\* C8: deal_id is unset before the transition into sealing and set from that
\* transition on: a deal has deal_id set exactly when it has been in sealing.
C8_DealIdSetOnSealing ==
  \A d \in Deals :
    deals[d].deal_id # 0 <=> STORAGE_DEAL_SEALING \in Range(history[d])

\* C9: a deal is put in active only after the chain watcher has resolved the
\* future of onDealSectorCommitted(provider, deal_id) for it.
C9_ActiveOnlyAfterCommit ==
  \A d \in Deals :
    STORAGE_DEAL_ACTIVE \in Range(history[d]) =>
      << deals[d].provider, deals[d].deal_id >> \in watch_resolved

\* C10: entering failing runs the cleanup action, which posts the event
\* (ProviderEventFailed or ProviderEventSendResponseFailed) that moves the
\* deal to error without any external event: a deal in failing has that
\* event queued.
C10_FailingPostsFailed ==
  \A d \in Deals :
    State(d) = STORAGE_DEAL_FAILING =>
      \E i \in Pending(d) :
        fsm_queue[i].event \in
          { ProviderEventFailed, ProviderEventSendResponseFailed }

\* C11: a deal whose proposal names a provider other than the receiving
\* provider's own miner address is never accepted: it never enters
\* proposal_accepted.
C11_WrongMinerNeverAccepted ==
  \A d \in Deals :
    deals[d].provider # actor_address =>
      STORAGE_DEAL_PROPOSAL_ACCEPTED \notin Range(history[d])

\* C12: ProviderEventNodeErrored taken from the queue for a deal in a
\* non-terminal state puts the deal in failing; a deal for which ensureFunds
\* returned an error while verified data was handled never enters
\* provider_funding or publish and, once its events are dispatched, has
\* been put in failing.
C12_NodeErroredFails ==
  /\ \A s \in FromAny :
       dispatch(ProviderEventNodeErrored, s) = STORAGE_DEAL_FAILING
  /\ (last.event = ProviderEventNodeErrored /\ last.from \notin Terminal) =>
       /\ last.to = STORAGE_DEAL_FAILING
       /\ STORAGE_DEAL_FAILING \in Range(history[last.deal])
  /\ \A d \in funds_failed :
       /\ STORAGE_DEAL_PROVIDER_FUNDING \notin Range(history[d])
       /\ STORAGE_DEAL_PUBLISH \notin Range(history[d])
       /\ Pending(d) = {} => State(d) = STORAGE_DEAL_FAILING

\* ensureFunds failed for a deal, and the ProviderEventNodeErrored posted for
\* it has put the deal from ensure_provider_funds in failing
C12_Witness ==
  /\ last.deal \in funds_failed
  /\ last.event = ProviderEventNodeErrored
  /\ last.from = STORAGE_DEAL_ENSURE_PROVIDER_FUNDS
  /\ State(last.deal) = STORAGE_DEAL_FAILING

\* C13: getDeal succeeds for the proposal CID of every deal record created,
\* whatever state the deal is in, terminal states included, and returns
\* LOCAL_DEAL_NOT_FOUND for a proposal CID no stream has carried.
C13_DealRecordsStay ==
  /\ \A d \in Deals : getDeal(deals[d].proposal_cid).error = Success
  /\ \A c \in ProposalCids :
       (\A d \in Deals : deals[d].proposal_cid # c) =>
         getDeal(c).error = LOCAL_DEAL_NOT_FOUND

\* a deal has reached a terminal state and getDeal still returns it, while
\* another proposal CID has never been received
C13_Witness ==
  \E d \in Deals, c \in ProposalCids :
    /\ State(d) \in Terminal
    /\ getDeal(deals[d].proposal_cid).value = d
    /\ getDeal(c).error = LOCAL_DEAL_NOT_FOUND

\* the watch of future i, if it is still registered
WatchesOf(i) == { j \in DOMAIN watches : watches[j].result = i }

\* C14: the future of a subscription, made before or after the watcher
\* started, yields success once a PreCommitSector to its provider naming its
\* deal with sector s and then a ProveCommitSector to that provider for
\* sector s have been applied, in one tipset or in two.
C14_CommitResolves ==
  \A i \in due : futures[i].result = FutureSuccess

\* a future resolved with success after the two messages were applied
C14_Witness ==
  \E i \in due :
    /\ futures[i].result = FutureSuccess
    /\ futures[i].set = 1
    /\ WatchesOf(i) = {}

\* C15: a future yields success only if a ProveCommitSector was applied for
\* the sector that a PreCommitSector to its provider naming its deal had
\* recorded; a watch with no sector recorded has a pending future.
C15_PendingWithoutPreCommit ==
  /\ \A i \in DOMAIN futures : futures[i].result = FutureSuccess => i \in due
  /\ \A j \in DOMAIN watches :
       futures[watches[j].result].result = FuturePending

\* a watch with no sector recorded is still pending although a
\* ProveCommitSector to its provider resolved a watch registered after it
C15_Witness ==
  \E j \in DOMAIN watches, i \in DOMAIN futures :
    /\ watches[j].result < i
    /\ watches[j].sector_number = NoSector
    /\ watches[j].result \notin revoked
    /\ futures[watches[j].result].result = FuturePending
    /\ futures[i].provider = watches[j].provider
    /\ futures[i].result = FutureSuccess

\* C16: after the REVERT of the tipset whose PreCommitSector recorded the
\* sector of a watch, and until a PreCommitSector naming its deal is applied
\* again, the watch has no sector recorded and its future is not resolved
\* with success; a future that yields success yields success ever after.
C16_RevertUnrecords ==
  [][/\ \A i \in revoked' :
          /\ futures'[i].result # FutureSuccess
          /\ \A j \in DOMAIN watches' :
               watches'[j].result = i =>
                 watches'[j].sector_number = NoSector
     /\ \A i \in DOMAIN futures :
          futures[i].result = FutureSuccess =>
            futures'[i].result = FutureSuccess]_vars

\* the recorded sector of a pending watch has been reverted while another
\* future stays resolved
C16_Witness ==
  \E i \in revoked, k \in DOMAIN futures :
    /\ futures[i].result = FuturePending
    /\ \E j \in WatchesOf(i) : watches[j].sector_number = NoSector
    /\ futures[k].result = FutureSuccess

\* C17: once the watcher is stopped no future is pending: a future not
\* resolved with success before the stop yields an error; and no future is
\* completed more than once.
C17_StopCancels ==
  /\ watcher = "stopped" =>
       /\ watches = << >>
       /\ \A i \in DOMAIN futures :
            /\ futures[i].result \in { FutureSuccess, FutureError }
            /\ futures[i].result = FutureError <=> i \notin due
  /\ \A i \in DOMAIN futures : futures[i].set <= 1

\* the watcher was stopped with one future resolved and another pending
C17_Witness ==
  /\ watcher = "stopped"
  /\ \E i, k \in DOMAIN futures :
       /\ futures[i].result = FutureError
       /\ futures[i].set = 1
       /\ futures[k].result = FutureSuccess

\* the file types whose bit is set in a mask

Acquired == response.op = "acquireSector"

\* C18: acquireSector returns FindAndAllocate exactly when existing and
\* allocate share a file type, whatever the sector and the index hold; it has
\* then made no call to the index; and the call leaves the path registry and
\* the index as they were.
C18_FindAndAllocate ==
  [][/\ Acquired' =>
          IF TypesOf(response'.existing) \cap TypesOf(response'.allocate) # {}
            THEN /\ response'.result.error = FindAndAllocate
                 /\ response'.result.calls = << >>
            ELSE response'.result.error # FindAndAllocate
     /\ paths_' = paths_
     /\ index_' = index_]_vars

\* a call with masks that differ but share a type, on a store that has
\* the sector's file of that type, was refused
C18_Witness ==
  /\ Acquired
  /\ response.existing # response.allocate
  /\ response.result.error = FindAndAllocate
  /\ \E t \in TypesOf(response.existing) \cap TypesOf(response.allocate),
        id \in StorageIDs :
       /\ paths_[id] \notin { NoPath, "" }
       /\ << id, response.sector, t >> \in index_.sectors

\* C19: a successful acquireSector returns an empty path and an empty store
\* for every file type that is neither in existing nor in allocate.
C19_OnlyRequestedTypes ==
  (Acquired /\ response.result.error = Success) =>
    \A t \in { FTUnsealed, FTSealed, FTCache } \
               TypesOf(BitOr(response.existing, response.allocate)) :
      /\ response.result.paths[t] = EmptyPath
      /\ response.result.stores[t] = NoStorage

\* a successful call that returned a path, on a store that holds locally a
\* file of the sector of a type that was not asked for
C19_Witness ==
  /\ Acquired
  /\ response.result.error = Success
  /\ \E t \in { FTUnsealed, FTSealed, FTCache } :
       response.result.paths[t] # EmptyPath
  /\ \E t \in { FTUnsealed, FTSealed, FTCache } \
                TypesOf(BitOr(response.existing, response.allocate)),
        id \in StorageIDs :
       /\ paths_[id] \notin { NoPath, "" }
       /\ << id, response.sector, t >> \in index_.sectors

\* the storageBestAlloc calls of the last acquireSector, by position
AllocCalls ==
  { i \in DOMAIN response.result.calls :
      /\ response.result.calls[i].fn = "storageBestAlloc"
      /\ response.result.calls[i].answer.error = Success }

\* the first candidate of a list that satisfies local, "" if there is none
FirstOf(infos, local(_)) ==
  LET hits == { i \in DOMAIN infos : local(infos[i]) }
  IN IF hits = {}
       THEN NoStorage
       ELSE infos[CHOOSE i \in hits : \A k \in hits : i <= k]

\* for every type of allocate whose candidates the index returned: with no
\* local candidate the call returns NotFoundPath, otherwise it does not fail
\* on this type and a successful call returns the path on the first local one
AllocatesOnFirst(local(_)) ==
  Acquired =>
    \A i \in AllocCalls :
      LET call == response.result.calls[i]
          first == FirstOf(call.answer.value, local)
      IN IF first = NoStorage
           THEN response.result.error = NotFoundPath
           ELSE /\ ~ /\ i = Len(response.result.calls)
                     /\ response.result.error = NotFoundPath
                /\ response.result.error = Success =>
                     /\ response.result.stores[call.type] = first
                     /\ response.result.paths[call.type] =
                          spath(first, call.type, response.sector)

\* registered in the path registry
Registered(id) == paths_[id] # NoPath

\* registered in the path registry with a path that is not empty
RegisteredWithPath(id) == paths_[id] # NoPath /\ paths_[id] # ""

\* C20 as stated: acquireSector returns NotFoundPath when none of the
\* candidates storageBestAlloc returned for a type of allocate is registered
\* in the path registry; otherwise the path chosen for the type is on the
\* first candidate that is registered.
C20_FirstRegistered == AllocatesOnFirst(Registered)

\* C20 amended: local means registered in the path registry with a path that
\* is not empty.
C20_FirstRegisteredWithPath == AllocatesOnFirst(RegisteredWithPath)

\* a call was refused with NotFoundPath although the index returned
\* candidates, and one of them is registered, with the empty path
C20_Witness ==
  /\ Acquired
  /\ response.result.error = NotFoundPath
  /\ LET call == response.result.calls[Len(response.result.calls)]
     IN /\ call.fn = "storageBestAlloc"
        /\ \E i \in DOMAIN call.answer.value :
             paths_[call.answer.value[i]] = ""

\* the storages the index declares as holding the file of the sector
Declared(index, sector, type) ==
  { id \in StorageIDs : << id, sector, type >> \in index.sectors }

\* the storages that have the file of the sector on disk
OnDisk(files, sector, type) ==
  { id \in StorageIDs : File(id, type, sectorName(sector)) \in files }

Removed == response.op = "remove"

\* C21: remove(sector, type) returns RemoveSeveralFileTypes when type is
\* empty or has more than one bit set, and then the index and the files on
\* disk are what they were before the call.
C21_RemoveSeveralFileTypes ==
  [][Removed' /\ Cardinality(TypesOf(response'.type)) # 1 =>
       /\ response'.error = RemoveSeveralFileTypes
       /\ index_' = index_
       /\ disk' = disk]_vars

\* remove refused a mask of two types, one of them a file that a registered
\* storage holds and the index declares
C21_Witness ==
  /\ Removed
  /\ response.error = RemoveSeveralFileTypes
  /\ Cardinality(TypesOf(response.type)) = 2
  /\ \E id \in StorageIDs, type \in TypesOf(response.type) :
       /\ RegisteredWithPath(id)
       /\ id \in Declared(index_, response.sector, type)
       /\ id \in OnDisk(disk, response.sector, type)

\* C22 as stated: after a successful remove(sector, type) with a single-bit
\* type no storage of the path registry is declared in the index as holding
\* the file and none of them has it on disk; remove returns NotFoundSector
\* when the index lists no storage for (sector, type).
C22_RemovedFromRegistered ==
  [][Removed' /\ Cardinality(TypesOf(response'.type)) = 1 =>
       /\ response'.error = Success =>
            \A id \in StorageIDs :
              Registered(id) =>
                /\ id \notin Declared(index_', response'.sector,
                                      response'.type)
                /\ id \notin OnDisk(disk', response'.sector, response'.type)
       /\ (/\ Declared(index_, response'.sector, response'.type) = {}
           /\ response'.error # IndexError)
            => response'.error = NotFoundSector]_vars

\* C22, amended: after a successful remove(sector, type) with a single-bit
\* type no storage registered with a path that is not empty is declared in
\* the index as holding the file, and none of those the index listed for it
\* has the file on disk; remove returns NotFoundSector when the index lists
\* no storage for (sector, type).
C22_RemovedFromListedWithPath ==
  [][Removed' /\ Cardinality(TypesOf(response'.type)) = 1 =>
       /\ response'.error = Success =>
            \A id \in StorageIDs :
              RegisteredWithPath(id) =>
                /\ id \notin Declared(index_', response'.sector,
                                      response'.type)
                /\ id \in Declared(index_, response'.sector, response'.type)
                     => id \notin OnDisk(disk', response'.sector,
                                         response'.type)
       /\ (/\ Declared(index_, response'.sector, response'.type) = {}
           /\ response'.error # IndexError)
            => response'.error = NotFoundSector]_vars

\* a successful remove of the sealed file with both storages that can hold
\* it under a path registered: neither declares it or has it, and the
\* unsealed file of the sector is still where it was
C22_Witness ==
  /\ Removed
  /\ response.error = Success
  /\ response.type = FTSealed
  /\ RegisteredWithPath("s1") /\ RegisteredWithPath("s2")
  /\ Declared(index_, response.sector, FTSealed) = {}
  /\ OnDisk(disk, response.sector, FTSealed) = {}
  /\ "s1" \in Declared(index_, response.sector, FTUnsealed)
  /\ "s1" \in OnDisk(disk, response.sector, FTUnsealed)

Moved == response.op = "moveStorage"

\* the storage moveStorage takes the file of a type from, and the one it
\* chooses for it
SourceOf(sector, types, type) ==
  acquireSectorWithoutLock(sector, types, FTNone, FALSE, FTNone).stores[type]

DestinationOf(sector, types, type) ==
  acquireSectorWithoutLock(sector, FTNone, types, FALSE, FTNone).stores[type]

\* C23: after a successful moveStorage(sector, proof, types), for every type
\* of types whose source storage was not can_store and is not the chosen
\* destination, the index declares the file at the destination and no longer
\* at the source, and the file is on disk at the destination and not at the
\* source; for every type whose source storage is can_store, the index
\* entries and the files of that type are what they were.
C23_MovedToStore ==
  [][Moved' /\ response'.error = Success =>
       \A type \in TypesOf(response'.types) :
         LET sector == response'.sector
             source == SourceOf(sector, response'.types, type)
             destination == DestinationOf(sector, response'.types, type)
         IN /\ (~StorageInfo(source).can_store /\ source # destination) =>
                 /\ destination \in Declared(index_', sector, type)
                 /\ source \notin Declared(index_', sector, type)
                 /\ destination \in OnDisk(disk', sector, type)
                 /\ source \notin OnDisk(disk', sector, type)
            /\ StorageInfo(source).can_store =>
                 /\ Declared(index_', sector, type)
                      = Declared(index_, sector, type)
                 /\ OnDisk(disk', sector, type) = OnDisk(disk, sector, type)
    ]_vars

\* a successful moveStorage of the sealed and the unsealed file has taken
\* both from s1, which cannot store, to s2, which can
C23_Witness ==
  /\ Moved
  /\ response.error = Success
  /\ TypesOf(response.types) = { FTUnsealed, FTSealed }
  /\ \A type \in { FTUnsealed, FTSealed } :
       /\ Declared(index_, response.sector, type) = { "s2" }
       /\ OnDisk(disk, response.sector, type) = { "s2" }

Opened == response.op = "openPath"

\* C26: a second openPath on a path whose metadata id is already in the path
\* registry returns DuplicateStorage, and it leaves the path registry and the
\* index (the storages attached and the sectors declared) as the first call
\* left them.
C26_DuplicateStorage ==
  [][(/\ Opened'
      /\ Registered(response'.id)
      /\ response'.error # InvalidStorageConfig) =>
       /\ response'.error = DuplicateStorage
       /\ paths_' = paths_
       /\ index_' = index_]_vars

\* the second openPath of a storage whose sectors the first had declared was
\* refused
C26_Witness ==
  /\ Opened
  /\ response.error = DuplicateStorage
  /\ \E sector \in SectorIds, type \in { FTUnsealed, FTSealed, FTCache } :
       response.id \in Declared(index_, sector, type)

\* C27: during the scan of openPath an entry whose name does not match
\* s-t0<miner>-<sector> is skipped: the call succeeds, every well-named
\* entry of the scanned directories is declared in the index, and the
\* storage is in the path registry.
C27_BadNameSkipped ==
  [][(/\ Opened'
      /\ ~Registered(response'.id)
      /\ response'.error \notin { InvalidStorageConfig, IndexError }
      /\ \E type \in { FTUnsealed, FTSealed, FTCache } :
           BadName \in Entries(response'.id, type)) =>
       /\ response'.error = Success
       /\ \A type \in { FTUnsealed, FTSealed, FTCache } :
            \A name \in SectorFiles(Entries(response'.id, type)) :
              response'.id \in Declared(index_', parseSectorId(name).value,
                                        type)
       /\ paths_'[response'.id] # NoPath]_vars

\* C28: after any sequence of openPath, remove and moveStorage calls, those
\* that return an error included, every (sector, type) file on disk under a
\* storage of the path registry is declared in the index for at least one
\* storage.
C28_DiskInIndex ==
  \A id \in StorageIDs, sector \in SectorIds,
     type \in { FTUnsealed, FTSealed, FTCache } :
    (Registered(id) /\ id \in OnDisk(disk, sector, type)) =>
      Declared(index_, sector, type) # {}

\* thread t is in the call op and owns the lock
Inside(t, op) ==
  threads[t].op = op /\ threads[t].pc \notin { "idle", "lock" }

\* thread t has dropped the source of a file and not yet declared its
\* destination
MidMove(t) ==
  threads[t].op = "moveStorage" /\ threads[t].pc \in { "rename", "declare" }

Exclusive == { "remove", "moveStorage", "openPath" }

Shared == { "acquireSector", "getFsStat" }

\* C25: remove, moveStorage and openPath run owning the lock exclusively and
\* overlap with no other call of the store; acquireSector and getFsStat run
\* owning it shared; no call asks for the lock while it owns it; and whenever
\* a call is under way some call can take a step, so no interleaving of the
\* calls deadlocks.
C25_LockDiscipline ==
  /\ \A t \in Threads :
       /\ (\E op \in Exclusive : Inside(t, op)) =>
            /\ mutex_ = [exclusive |-> t, shared |-> {}]
            /\ \A u \in Threads \ { t } :
                 \A op \in Exclusive \cup Shared : ~Inside(u, op)
       /\ (\E op \in Shared : Inside(t, op)) =>
            /\ mutex_.exclusive = NoThread
            /\ t \in mutex_.shared
       /\ threads[t].pc = "lock" =>
            mutex_.exclusive # t /\ t \notin mutex_.shared
  /\ (\E t \in Threads : threads[t] # Idle) => ENABLED Proceed

\* acquireSector and getFsStat overlap: two threads own the lock shared, one
\* in each call
C25_Witness ==
  \E t \in Threads, u \in Threads :
    /\ Inside(t, "acquireSector")
    /\ Inside(u, "getFsStat")
    /\ mutex_.shared = { t, u }

\* C29: when reading or decoding the Proposal of a deal stream fails, or the
\* proposal CID or the remote peer info cannot be had, the provider closes
\* the stream and creates no deal record, no connection entry and no FSM
\* instance, and posts no event.
C29_FailedStreamCreatesNothing ==
  [][\A p \in Proposals, outcome \in StreamOutcomes \ { StreamOk } :
       handleDealStream(p, outcome) =>
         /\ streams + 1 \in closed'
         /\ deals' = deals
         /\ local_deals_' = local_deals_
         /\ connections_' = connections_
         /\ history' = history
         /\ fsm_queue' = fsm_queue]_vars

\* a deal stream was closed with no deal made for it, after a first stream
\* had brought a deal
C29_Witness ==
  /\ streams = 2
  /\ 2 \in closed
  /\ Len(deals) = 1
  /\ \A c \in ProposalCids : connections_[c] # 2

\* the events the action of a transition can post
Posted(event) ==
  UNION { Range(action(event, deals[d], maybe_cid).send) :
            d \in Deals, maybe_cid \in EnsureFundsResults }

\* C30: the event a transition's action posts is dispatched only after the
\* deal's state has been set to the transition's target: every such event
\* (DealAccepted after Open, FundingInitiated after VerifiedData, and so on)
\* is matched against the target state of the transition that posted it, and
\* none is dropped. ProviderEventOpen and ProviderEventVerifiedData are the
\* events posted from outside the FSM.
C30_FollowUpSeesTarget ==
  (/\ last.deal \in Deals
   /\ last.event \notin { ProviderEventOpen, ProviderEventVerifiedData }) =>
    /\ last.to # NoState
    /\ \E row \in makeFSMTransitions :
         /\ row.to = last.from
         /\ last.event \in Posted(row.event)

\* ProviderEventFundingInitiated, posted by the action of VerifiedData, was
\* matched against ensure_provider_funds, the target of that transition
C30_Witness ==
  /\ last.deal \in Deals
  /\ last.event = ProviderEventFundingInitiated
  /\ last.from = STORAGE_DEAL_ENSURE_PROVIDER_FUNDS
  /\ last.to = STORAGE_DEAL_PROVIDER_FUNDING

\* C31: a second inbound proposal carrying a ProposalCID for which the
\* provider already has a deal record does not replace that record or reset
\* the deal's state to unknown: the record found under the CID is the same
\* deal, with its state and fields as they were.
C31_DuplicateKeepsRecord ==
  [][\A p \in Proposals :
       (/\ local_deals_[getProposalCid(p)] # 0
        /\ handleDealStream(p, StreamOk)) =>
         /\ local_deals_'[getProposalCid(p)] = local_deals_[getProposalCid(p)]
         /\ deals'[local_deals_'[getProposalCid(p)]] =
              deals[local_deals_[getProposalCid(p)]]]_vars

\* the states from which ProviderEventVerifiedData has a rule
AwaitingData == { STORAGE_DEAL_WAITING_FOR_DATA, STORAGE_DEAL_VERIFY_DATA }

\* the FSM takes a ProviderEventVerifiedData posted by importDataForDeal for
\* a deal that is not in waiting_for_data or verify_data: the deal, its
\* add_funds_cid included, stays as it is, no callback runs (so ensureFunds
\* is not called) and no event is posted
LateImportDropped ==
  (/\ fsm_queue # << >>
   /\ Head(fsm_queue).event = ProviderEventVerifiedData
   /\ deals[Head(fsm_queue).deal].state \notin AwaitingData
   /\ ProcessEvent) =>
    /\ deals' = deals
    /\ history' = history
    /\ funds_failed' = funds_failed
    /\ fsm_queue' = Tail(fsm_queue)

\* what importDataForDeal does for a proposal CID with no deal record: it
\* returns the error the call at hand gives, and no step of it changes a deal
\* or posts an event
UnknownImport(error(_)) ==
  \A c \in ProposalCids, data \in Buffers :
    local_deals_[c] = 0 =>
      /\ importDataForDealResult(c, data) = error(data)
      /\ ~ ENABLED (/\ importDataForDeal(c, data)
                    /\ (deals' # deals \/ fsm_queue' # fsm_queue))

\* LOCAL_DEAL_NOT_FOUND whatever the data
NotFound(data) == LOCAL_DEAL_NOT_FOUND

\* the error of generatePieceCommitment when the piece commitment of the
\* data cannot be generated, LOCAL_DEAL_NOT_FOUND otherwise
CommitmentErrorOrNotFound(data) ==
  IF generatePieceCommitment(data) = PieceIOError
    THEN PieceIOError
    ELSE LOCAL_DEAL_NOT_FOUND

\* C32 as stated: importDataForDeal advances a deal only from
\* waiting_for_data or verify_data, a later call with matching data changes
\* neither the deal's state nor add_funds_cid and runs no second ensureFunds,
\* and a call for an unknown proposal CID returns LOCAL_DEAL_NOT_FOUND and
\* changes no deal.
C32_ImportOnlyWhileAwaited ==
  [] UnknownImport(NotFound) /\ [][LateImportDropped]_vars

\* C32, amended: as above, but a call for an unknown proposal CID returns
\* LOCAL_DEAL_NOT_FOUND when the piece commitment of the data can be
\* generated, and the error of generatePieceCommitment otherwise; in both
\* cases no deal changes and nothing is posted.
C32_ImportOnlyWhileAwaitedCommitted ==
  [] UnknownImport(CommitmentErrorOrNotFound) /\ [][LateImportDropped]_vars

\* importDataForDeal was called with matching data for a deal already in
\* ensure_provider_funds or beyond: its ProviderEventVerifiedData found the
\* deal in provider_funding and was dropped
C32_Witness ==
  /\ last.deal \in imported
  /\ last.event = ProviderEventVerifiedData
  /\ last.from = STORAGE_DEAL_PROVIDER_FUNDING
  /\ last.to = NoState
  /\ deals[last.deal].state # STORAGE_DEAL_ENSURE_PROVIDER_FUNDS

\* the answers the index gave the last acquireSector for its lookups of the
\* existing file of type t
FindAnswers(t) ==
  { response.result.calls[i].answer :
      i \in { k \in DOMAIN response.result.calls :
                /\ response.result.calls[k].fn = "storageFindSector"
                /\ response.result.calls[k].type = t } }

\* the lookup of type t failed, or no storage of the path registry is
\* declared as holding the file
Missing(t) ==
  \A answer \in FindAnswers(t) :
    \/ answer.error # Success
    \/ FirstOf(answer.value, Registered) = NoStorage

\* the last acquireSector ended at a storageBestAlloc call that failed or
\* listed no storage registered with a path
AllocationFailed ==
  /\ response.result.calls # << >>
  /\ LET call == response.result.calls[Len(response.result.calls)]
     IN /\ call.fn = "storageBestAlloc"
        /\ \/ call.answer.error # Success
           \/ FirstOf(call.answer.value, RegisteredWithPath) = NoStorage

\* C35: acquireSector with a bit set in existing for which no storage of the
\* local path registry is declared as holding the sector, or for which the
\* lookup of the index fails, does not fail on that account: the call fails
\* only where an allocation fails, and a call that allocates nothing
\* succeeds; the result has an empty path and store for that type, and the
\* other requested types are filled in, an existing one with the first
\* listed storage registered with a path, when there is one.
C35_MissingExistingTolerated ==
  (/\ Acquired
   /\ BitAnd(response.existing, response.allocate) = FTNone
   /\ \E t \in TypesOf(response.existing) : Missing(t)) =>
    /\ response.result.error # Success => AllocationFailed
    /\ response.allocate = FTNone => response.result.error = Success
    /\ response.result.error = Success =>
         /\ \A t \in TypesOf(response.existing) :
              IF Missing(t)
                THEN /\ response.result.paths[t] = EmptyPath
                     /\ response.result.stores[t] = NoStorage
                ELSE \A answer \in FindAnswers(t) :
                       LET first == FirstOf(answer.value, RegisteredWithPath)
                       IN first # NoStorage =>
                            /\ response.result.stores[t] = first
                            /\ response.result.paths[t] =
                                 spath(first, t, response.sector)
         /\ \A t \in TypesOf(response.allocate) :
              /\ response.result.stores[t] # NoStorage
              /\ response.result.paths[t] # EmptyPath

\* a successful call that asked for two existing types and an allocation:
\* one existing type is held by no registered storage and comes back empty,
\* the other and the allocated type come back with their paths
C35_Witness ==
  /\ Acquired
  /\ response.result.error = Success
  /\ response.allocate # FTNone
  /\ \E t \in TypesOf(response.existing), u \in TypesOf(response.existing) :
       /\ Missing(t)
       /\ response.result.paths[t] = EmptyPath
       /\ ~ Missing(u)
       /\ response.result.paths[u] # EmptyPath
  /\ \A t \in TypesOf(response.allocate) :
       response.result.paths[t] # EmptyPath

\* C33: an openPath call that returns an error leaves the path registry and
\* the index unchanged: the storage is not left attached to the index, and
\* no sector of it is left declared, without being in the path registry.
C33_FailedOpenChangesNothing ==
  [][(Opened' /\ response'.error # Success) =>
       /\ paths_' = paths_
       /\ index_' = index_]_vars

\* C34: in every state reachable by openPath, remove and moveStorage, the
\* states left by calls that fail included, every (storage, sector, type)
\* the index declares for a storage of the path registry has its file on
\* disk in that storage: remove and moveStorage drop the entry of the index
\* before they touch the file, and moveStorage declares the destination only
\* after the rename.
C34_IndexOnDisk ==
  \A id \in StorageIDs, sector \in SectorIds,
     type \in { FTUnsealed, FTSealed, FTCache } :
    (Registered(id) /\ id \in Declared(index_, sector, type)) =>
      id \in OnDisk(disk, sector, type)

\* a moveStorage whose rename failed has left the file at its source,
\* declared nowhere, while another file of the store is still declared
C34_Witness ==
  /\ Moved
  /\ response.error = CannotMoveSector
  /\ \E id \in StorageIDs, type \in TypesOf(response.types) :
       /\ Registered(id)
       /\ id \in OnDisk(disk, response.sector, type)
       /\ Declared(index_, response.sector, type) = {}
  /\ \E id \in StorageIDs, type \in { FTUnsealed, FTSealed, FTCache } :
       /\ Registered(id)
       /\ id \in Declared(index_, response.sector, type)

====
